---- MODULE Spec2Model ----
(***************************************************************************)
(* A model of the blog-post storage layer of triphita-blog-dashboard:      *)
(* the request validators of shared/schema.ts, the in-memory backend       *)
(* (MemStorage) and the relational backend (MySQLStorage) of               *)
(* server/storage.ts, and the list endpoint of server/routes.ts.           *)
(*                                                                         *)
(* JavaScript values are tagged records, so that undefined, null, "" and   *)
(* [] stay distinct: [kind |-> "undefined"], [kind |-> "null"],            *)
(* [kind |-> "string", v |-> s], [kind |-> "array", v |-> <<...>>],        *)
(* [kind |-> "date", v |-> iso].  An object is a function from its own     *)
(* keys to values; a key that is not in its DOMAIN is absent.              *)
(***************************************************************************)
EXTENDS Integers, Sequences, FiniteSets, TLC

VARIABLES
    backend,            \* which storage the process exports: "mem" or "sql"
    blogPosts,          \* MemStorage.blogPosts: the Map, as its entries in insertion order
    currentBlogPostId,  \* MemStorage.currentBlogPostId
    sqlRows,            \* the blog_posts table: a function from the ids present to rows
    sqlAutoInc,         \* the table's AUTO_INCREMENT counter
    seedPc,             \* the initializeSampleData runs of the MySQLStorage instances
                        \* booted against the table, and where each stands
    now,                \* the clock read by new Date() and CURRENT_TIMESTAMP
    opsLeft,            \* calls or requests the exploration still allows
    ret,                \* the last storage call and what it returned
    users,              \* MemStorage.users: the Map, as its entries in insertion order
    currentUserId,      \* MemStorage.currentUserId
    res,                \* the last HTTP request and the response it was given
    calls               \* the storage calls in flight: what each was given, where it stands

vars ==
    <<backend, blogPosts, currentBlogPostId, sqlRows, sqlAutoInc, seedPc, now, opsLeft, ret,
      users, currentUserId, res, calls>>
userVars == <<users, currentUserId>>
memVars == <<blogPosts, currentBlogPostId>>
sqlVars == <<sqlRows, sqlAutoInc, seedPc>>

---------------------------------------------------------------------------
(* Bounds of the exploration. *)
\* Requests made of the HTTP handlers
MaxHttpOps == 2
\* User calls made of the in-memory storage
MaxUserOps == 3

\* storage calls (create, update, delete) per behaviour of the in-memory backend
MaxOps == 3
\* storage calls per behaviour of the relational backend, whose seeding runs beside them
MaxSqlOps == 2
\* storage calls per behaviour before the list endpoint is asked
MaxListOps == 2
\* clock ticks per calendar month (the model's time resolution)
TicksPerMonth == 2
\* clock readings the clock may move on by while a constructor seeds its samples
MaxBootTicks == 1
\* Date.getMonth() ranges over 0..11
MonthsPerYear == 12

---------------------------------------------------------------------------
(* JavaScript values *)

Undefined == [kind |-> "undefined"]
Null == [kind |-> "null"]
Str(s) == [kind |-> "string", v |-> s]
Arr(a) == [kind |-> "array", v |-> a]
DateOf(d) == [kind |-> "date", v |-> d]

Num(n) == [kind |-> "number", v |-> n]
NaN == [kind |-> "NaN"]

\* parseInt(s) of a string without leading blanks, sign or radix prefix: the number its
\* leading decimal digits spell, NaN when it does not start with a digit
DecimalDigits == <<"0", "1", "2", "3", "4", "5", "6", "7", "8", "9">>
IsDigit(c) == \E d \in 1..Len(DecimalDigits) : DecimalDigits[d] = c
DigitValue(c) == (CHOOSE d \in 1..Len(DecimalDigits) : DecimalDigits[d] = c) - 1
RECURSIVE ParseDigits(_, _, _)
ParseDigits(s, i, acc) ==
    IF i > Len(s) \/ ~IsDigit(SubSeq(s, i, i))
    THEN acc
    ELSE ParseDigits(s, i + 1, acc * Len(DecimalDigits) + DigitValue(SubSeq(s, i, i)))
ParseInt(s) ==
    IF Len(s) = 0 \/ ~IsDigit(SubSeq(s, 1, 1)) THEN NaN ELSE Num(ParseDigits(s, 1, 0))

\* obj.key, undefined when the key is absent
Field(obj, key) == IF key \in DOMAIN obj THEN obj[key] ELSE Undefined

\* ToBoolean: undefined, null and "" are falsy; arrays (also []) and Dates are truthy
Truthy(v) ==
    CASE v.kind \in {"undefined", "null"} -> FALSE
      [] v.kind = "string" -> v.v # ""
      [] OTHER -> TRUE

\* a || b
OrElse(a, b) == IF Truthy(a) THEN a ELSE b

\* { ...a, ...b }
Spread(a, b) ==
    [k \in DOMAIN a \cup DOMAIN b |-> IF k \in DOMAIN b THEN b[k] ELSE a[k]]

\* The ISO-8601 date-times the model's payloads use; Date.parse of anything else is NaN.
IsoStrings ==
    { "2023-12-15T10:00:00.000Z", "2023-12-12T09:00:00.000Z",
      "2023-12-10T08:00:00.000Z", "2024-06-01T00:00:00.000Z" }

\* new Date(v) of a string value: the instant the string names, or Invalid Date
NewDate(v) == DateOf(IF v.v \in IsoStrings THEN v.v ELSE "Invalid Date")

\* String.prototype.toLowerCase, letter by letter (the texts of the model are ASCII)
UpperCaseLetters ==
    [ A |-> "a", B |-> "b", C |-> "c", D |-> "d", E |-> "e", F |-> "f", G |-> "g",
      H |-> "h", I |-> "i", J |-> "j", K |-> "k", L |-> "l", M |-> "m", N |-> "n",
      O |-> "o", P |-> "p", Q |-> "q", R |-> "r", S |-> "s", T |-> "t", U |-> "u",
      V |-> "v", W |-> "w", X |-> "x", Y |-> "y", Z |-> "z" ]
LowerChar(c) == IF c \in DOMAIN UpperCaseLetters THEN UpperCaseLetters[c] ELSE c
RECURSIVE ToLowerCase(_)
ToLowerCase(s) ==
    IF Len(s) = 0 THEN ""
    ELSE IF Len(s) = 1 THEN LowerChar(s)
    ELSE ToLowerCase(SubSeq(s, 1, Len(s) \div 2))
            \o ToLowerCase(SubSeq(s, Len(s) \div 2 + 1, Len(s)))

\* String.prototype.includes
Includes(s, q) == \E i \in 0..(Len(s) - Len(q)) : SubSeq(s, i + 1, i + Len(q)) = q

\* Date.getMonth() and Date.getFullYear() of a clock reading
GetMonth(t) == (t \div TicksPerMonth) % MonthsPerYear
GetFullYear(t) == t \div (TicksPerMonth * MonthsPerYear)

\* The clock readings the environment supplies: boot, later in the month of boot,
\* the month after, and the same month one year later.
ClockReadings == {0, 1, TicksPerMonth, TicksPerMonth * MonthsPerYear}
\* The readings CURRENT_TIMESTAMP of the database is explored at: boot, and the month
\* after
SqlClockReadings == {0, TicksPerMonth}

---------------------------------------------------------------------------
(* shared/schema.ts: insertBlogPostSchema and updateBlogPostSchema *)

SchemaKeys ==
    { "title", "content", "excerpt", "category", "status", "featuredImage",
      "metaDescription", "tags", "publishDate" }
NullableStringKeys ==
    { "excerpt", "category", "featuredImage", "metaDescription", "publishDate" }

\* z.string().min(1)
IsNonEmptyString(v) == v.kind = "string" /\ Len(v.v) >= 1
\* z.string().nullable().optional()
IsOptionalString(v) == v.kind \in {"undefined", "null", "string"}
\* z.array(z.string()).nullable().optional()
IsOptionalStringArray(v) ==
    \/ v.kind \in {"undefined", "null"}
    \/ v.kind = "array" /\ \A i \in 1..Len(v.v) : v.v[i].kind = "string"

\* insertBlogPostSchema.parse(body) does not throw
InsertValid(body) ==
    /\ IsNonEmptyString(Field(body, "title"))
    /\ IsNonEmptyString(Field(body, "content"))
    /\ \A k \in NullableStringKeys : IsOptionalString(Field(body, k))
    /\ Field(body, "status").kind \in {"undefined", "string"}
    /\ IsOptionalStringArray(Field(body, "tags"))

\* The paths of the issues the ZodError of insertBlogPostSchema.parse(body) lists
InsertIssues(body) ==
    {k \in {"title", "content"} : ~IsNonEmptyString(Field(body, k))}
    \cup {k \in NullableStringKeys : ~IsOptionalString(Field(body, k))}
    \cup {k \in {"status"} : Field(body, k).kind \notin {"undefined", "string"}}
    \cup {k \in {"tags"} : ~IsOptionalStringArray(Field(body, k))}

\* what insertBlogPostSchema.parse(body) returns: the schema's keys that are present
\* (unknown keys are stripped), and status defaulted to "draft"
InsertParse(body) ==
    [k \in (DOMAIN body \cap SchemaKeys) \cup {"status"} |->
        IF k = "status" /\ Field(body, k).kind = "undefined" THEN Str("draft") ELSE body[k]]

\* An update schema that lets title and content be any string, the empty one too
UpdateValidAnyString(body) ==
    /\ \A k \in {"title", "content"} : Field(body, k).kind \in {"undefined", "string"}
    /\ \A k \in NullableStringKeys : IsOptionalString(Field(body, k))
    /\ Field(body, "status").kind \in {"undefined", "string"}
    /\ IsOptionalStringArray(Field(body, "tags"))

\* updateBlogPostSchema = insertBlogPostSchema.partial(): every key may be absent,
\* a key that is present obeys the rule of the insert schema
UpdateValid(body) ==
    /\ \A k \in {"title", "content"} :
          Field(body, k).kind = "undefined" \/ IsNonEmptyString(Field(body, k))
    /\ \A k \in NullableStringKeys : IsOptionalString(Field(body, k))
    /\ Field(body, "status").kind \in {"undefined", "string"}
    /\ IsOptionalStringArray(Field(body, "tags"))

\* The paths of the issues the ZodError of updateBlogPostSchema.parse(body) lists
UpdateIssues(body) ==
    {k \in {"title", "content"} :
        Field(body, k).kind # "undefined" /\ ~IsNonEmptyString(Field(body, k))}
    \cup {k \in NullableStringKeys : ~IsOptionalString(Field(body, k))}
    \cup {k \in {"status"} : Field(body, k).kind \notin {"undefined", "string"}}
    \cup {k \in {"tags"} : ~IsOptionalStringArray(Field(body, k))}

\* what updateBlogPostSchema.parse(body) returns: no default is applied to an absent key
UpdateParse(body) == [k \in DOMAIN body \cap SchemaKeys |-> body[k]]

---------------------------------------------------------------------------
(* A JavaScript Map, as the sequence of its entries [k, v] in insertion order *)

\* Map.clear() where delete(key) was meant: every entry goes
MapClear(m, key) == <<>>

MapHas(m, key) == \E i \in 1..Len(m) : m[i].k = key
MapIndex(m, key) == CHOOSE i \in 1..Len(m) : m[i].k = key
\* Map.get: the value, or undefined
MapGet(m, key) == IF MapHas(m, key) THEN m[MapIndex(m, key)].v ELSE Undefined
\* Map.set: an existing key keeps its place, a new key goes last
MapSet(m, key, val) ==
    IF MapHas(m, key)
    THEN [m EXCEPT ![MapIndex(m, key)] = [k |-> key, v |-> val]]
    ELSE Append(m, [k |-> key, v |-> val])
\* Map.delete: the map without the key
MapDelete(m, key) == SelectSeq(m, LAMBDA e : e.k # key)
\* Array.from(map.values())
MapValues(m) == [i \in 1..Len(m) |-> m[i].v]
MapKeys(m) == {m[i].k : i \in 1..Len(m)}

\* Array.prototype.filter
Filter(s, Test(_)) == SelectSeq(s, Test)

---------------------------------------------------------------------------
(* server/storage.ts: the sample posts of initializeSampleData *)

SamplePosts ==
    << [ title |-> Str("Ultimate Guide to Hiking in the Swiss Alps"),
         content |-> Str("Discover breathtaking trails and hidden gems in the Swiss Alps. This comprehensive guide covers everything from beginner-friendly paths to challenging mountain routes."),
         excerpt |-> Str("Discover breathtaking trails and hidden gems..."),
         category |-> Str("Travel"),
         status |-> Str("published"),
         featuredImage |-> Str("https://images.unsplash.com/photo-1506905925346-21bda4d32df4?ixlib=rb-4.0.3&auto=format&fit=crop&w=800&h=600"),
         metaDescription |-> Str("Complete guide to hiking in the Swiss Alps with trail recommendations and tips"),
         tags |-> Arr(<<Str("hiking"), Str("switzerland"), Str("alps"), Str("travel")>>),
         publishDate |-> Str("2023-12-15T10:00:00.000Z") ],
       [ title |-> Str("Food Adventures in Tokyo's Street Markets"),
         content |-> Str("Explore authentic Japanese cuisine and culture through Tokyo's vibrant street food scene. From traditional ramen to modern fusion dishes."),
         excerpt |-> Str("Explore authentic Japanese cuisine and culture..."),
         category |-> Str("Food"),
         status |-> Str("draft"),
         featuredImage |-> Str("https://images.unsplash.com/photo-1578662996442-48f60103fc96?ixlib=rb-4.0.3&auto=format&fit=crop&w=800&h=600"),
         metaDescription |-> Str("Discover Tokyo's best street food markets and hidden culinary gems"),
         tags |-> Arr(<<Str("food"), Str("tokyo"), Str("japan"), Str("street food")>>),
         publishDate |-> Str("2023-12-12T09:00:00.000Z") ],
       [ title |-> Str("Hidden Gems of the Greek Islands"),
         content |-> Str("Discover secluded beaches and ancient ruins away from the tourist crowds. These lesser-known Greek islands offer pristine beauty and rich history."),
         excerpt |-> Str("Discover secluded beaches and ancient ruins..."),
         category |-> Str("Culture"),
         status |-> Str("published"),
         featuredImage |-> Str("https://images.unsplash.com/photo-1533105079780-92b9be482077?ixlib=rb-4.0.3&auto=format&fit=crop&w=800&h=600"),
         metaDescription |-> Str("Explore hidden Greek islands with pristine beaches and ancient history"),
         tags |-> Arr(<<Str("greece"), Str("islands"), Str("culture"), Str("travel")>>),
         publishDate |-> Str("2023-12-10T08:00:00.000Z") ] >>

---------------------------------------------------------------------------
(* server/storage.ts: MemStorage *)

\* createBlogPost: the record built from the payload, the next id and new Date()
MemNewPost(id, insertPost, t) ==
    [ id |-> id,
      title |-> Field(insertPost, "title"),
      content |-> Field(insertPost, "content"),
      excerpt |-> OrElse(Field(insertPost, "excerpt"), Null),
      category |-> OrElse(Field(insertPost, "category"), Null),
      status |-> OrElse(Field(insertPost, "status"), Str("draft")),
      featuredImage |-> OrElse(Field(insertPost, "featuredImage"), Null),
      metaDescription |-> OrElse(Field(insertPost, "metaDescription"), Null),
      tags |-> OrElse(Field(insertPost, "tags"), Null),
      publishDate |-> IF Truthy(Field(insertPost, "publishDate"))
                      THEN NewDate(Field(insertPost, "publishDate"))
                      ELSE Null,
      createdAt |-> t,
      updatedAt |-> t ]

\* A merge that stamps createdAt, not updatedAt, with the time of the call
MemUpdatedPostStampsCreatedAt(existingPost, updatePost, t) ==
    [ Spread(existingPost, updatePost) EXCEPT
        !["publishDate"] = IF Truthy(Field(updatePost, "publishDate"))
                           THEN NewDate(Field(updatePost, "publishDate"))
                           ELSE existingPost.publishDate,
        !["createdAt"] = t ]

\* updateBlogPost: the record that replaces existingPost
MemUpdatedPost(existingPost, updatePost, t) ==
    [ Spread(existingPost, updatePost) EXCEPT
        !["publishDate"] = IF Truthy(Field(updatePost, "publishDate"))
                           THEN NewDate(Field(updatePost, "publishDate"))
                           ELSE existingPost.publishDate,
        !["updatedAt"] = t ]

\* getBlogPost(id)
MemGetBlogPost(posts, id) == MapGet(posts, id)

\* The readings new Date() gives the createBlogPost calls of one initializeSampleData
\* that starts at t: each call reads the clock itself, and the clock may have moved on
\* between two of them
BootReadings(t) ==
    {times \in [1..Len(SamplePosts) -> ClockReadings] :
        /\ times[1] = t
        /\ \A i \in 1..(Len(SamplePosts) - 1) : times[i] <= times[i + 1]
        /\ Cardinality({r \in ClockReadings : t < r /\ r <= times[Len(SamplePosts)]})
               <= MaxBootTicks}

\* The state a sequence of createBlogPost calls leaves, the i-th made at times[i]: the
\* constructor's initializeSampleData, from an empty map and a counter of 1
RECURSIVE MemSeeded(_, _, _, _)
MemSeeded(posts, nextId, samples, times) ==
    IF samples = <<>>
    THEN [posts |-> posts, nextId |-> nextId]
    ELSE MemSeeded(MapSet(posts, nextId, MemNewPost(nextId, Head(samples), Head(times))),
                   nextId + 1, Tail(samples), Tail(times))

\* A sort step with the comparator reversed: oldest first
InsertOldestFirst(sorted, post) ==
    LET before == SelectSeq(sorted, LAMBDA q : q.createdAt <= post.createdAt)
        after == SelectSeq(sorted, LAMBDA q : q.createdAt > post.createdAt)
    IN  before \o <<post>> \o after

\* Array.prototype.sort with the comparator of getAllBlogPosts (newest first); the
\* sort is stable, so posts of equal createdAt keep their order
RECURSIVE SortNewestFirst(_)
InsertNewestFirst(sorted, post) ==
    LET before == SelectSeq(sorted, LAMBDA q : q.createdAt >= post.createdAt)
        after == SelectSeq(sorted, LAMBDA q : q.createdAt < post.createdAt)
    IN  before \o <<post>> \o after
SortNewestFirst(posts) ==
    IF posts = <<>>
    THEN <<>>
    ELSE InsertNewestFirst(SortNewestFirst(SubSeq(posts, 1, Len(posts) - 1)),
                           posts[Len(posts)])

\* getAllBlogPosts()
MemGetAllBlogPosts(posts) == SortNewestFirst(MapValues(posts))

\* Statistics whose total is the sum of the published and draft counts
MemStatsTotalFromStatuses(posts, t) ==
    LET all == MapValues(posts)
        currentMonth == GetMonth(t)
        currentYear == GetFullYear(t)
        published == Len(Filter(all, LAMBDA post : post.status = Str("published")))
        draft == Len(Filter(all, LAMBDA post : post.status = Str("draft")))
    IN  [ totalPosts |-> published + draft,
          publishedPosts |-> published,
          draftPosts |-> draft,
          monthlyPosts |-> Len(Filter(all, LAMBDA post :
                               /\ GetMonth(post.createdAt) = currentMonth
                               /\ GetFullYear(post.createdAt) = currentYear)) ]

\* Statistics whose monthly count compares the month and not the year
MemStatsMonthOnly(posts, t) ==
    LET all == MapValues(posts)
        currentMonth == GetMonth(t)
    IN  [ totalPosts |-> Len(all),
          publishedPosts |-> Len(Filter(all, LAMBDA post : post.status = Str("published"))),
          draftPosts |-> Len(Filter(all, LAMBDA post : post.status = Str("draft"))),
          monthlyPosts |-> Len(Filter(all, LAMBDA post :
                               GetMonth(post.createdAt) = currentMonth)) ]

\* getBlogPostStats() called at time t
MemGetBlogPostStats(posts, t) ==
    LET all == MapValues(posts)
        currentMonth == GetMonth(t)
        currentYear == GetFullYear(t)
    IN  [ totalPosts |-> Len(all),
          publishedPosts |-> Len(Filter(all, LAMBDA post : post.status = Str("published"))),
          draftPosts |-> Len(Filter(all, LAMBDA post : post.status = Str("draft"))),
          monthlyPosts |-> Len(Filter(all, LAMBDA post :
                               /\ GetMonth(post.createdAt) = currentMonth
                               /\ GetFullYear(post.createdAt) = currentYear)) ]

---------------------------------------------------------------------------
(* server/storage.ts: MySQLStorage, over the blog_posts table of shared/schema.ts. *)
(* The table is a function from the ids present to rows.                           *)

\* The keys of an object whose value is not undefined: the ORM leaves the others out
\* of the statement
DefinedKeys(obj) == {k \in DOMAIN obj : obj[k].kind # "undefined"}

\* INSERT INTO blog_posts: a column without a value takes its default (status 'draft',
\* created_at and updated_at CURRENT_TIMESTAMP, NULL otherwise)
SqlInsertedRow(id, postData, t) ==
    [ id |-> id,
      title |-> Field(postData, "title"),
      content |-> Field(postData, "content"),
      excerpt |-> IF "excerpt" \in DefinedKeys(postData) THEN postData.excerpt ELSE Null,
      category |-> IF "category" \in DefinedKeys(postData) THEN postData.category ELSE Null,
      status |-> IF "status" \in DefinedKeys(postData) THEN postData.status ELSE Str("draft"),
      featuredImage |-> IF "featuredImage" \in DefinedKeys(postData)
                        THEN postData.featuredImage ELSE Null,
      metaDescription |-> IF "metaDescription" \in DefinedKeys(postData)
                          THEN postData.metaDescription ELSE Null,
      tags |-> IF "tags" \in DefinedKeys(postData) THEN postData.tags ELSE Null,
      publishDate |-> IF "publishDate" \in DefinedKeys(postData)
                      THEN postData.publishDate ELSE Null,
      createdAt |-> t,
      updatedAt |-> t ]

\* createBlogPost: the values handed to the insert
SqlPostData(insertPost) ==
    Spread(insertPost,
           [publishDate |-> IF Truthy(Field(insertPost, "publishDate"))
                            THEN NewDate(Field(insertPost, "publishDate"))
                            ELSE Null])

\* updateBlogPost: the values handed to set()
SqlUpdateData(updatePost) ==
    Spread(updatePost,
           [publishDate |-> IF Truthy(Field(updatePost, "publishDate"))
                            THEN NewDate(Field(updatePost, "publishDate"))
                            ELSE Undefined])

\* set(updateData) throws ("No values to set") when no key has a value
SqlSetThrows(updateData) == DefinedKeys(updateData) = {}

\* UPDATE blog_posts SET ... WHERE id: the row afterwards. updated_at is
\* ON UPDATE CURRENT_TIMESTAMP: it moves when some column changes its value
SqlUpdatedRow(row, updateData, t) ==
    LET changed == [k \in DOMAIN row |->
                       IF k \in DefinedKeys(updateData) THEN updateData[k] ELSE row[k]]
    IN  IF changed = row THEN row ELSE [changed EXCEPT !["updatedAt"] = t]

\* SELECT ... WHERE id = ? LIMIT 1, then result[0]
SqlGetBlogPost(rows, id) == IF id \in DOMAIN rows THEN rows[id] ELSE Undefined

\* The table with one more row
SqlWithRow(rows, id, row) ==
    [k \in DOMAIN rows \cup {id} |-> IF k = id THEN row ELSE rows[k]]
\* DELETE FROM blog_posts WHERE id
SqlWithoutRow(rows, id) == [k \in DOMAIN rows \ {id} |-> rows[k]]

\* ORDER BY created_at DESC over the rows of the given ids: a newest row first, then
\* the others in such an order. The order of rows of equal created_at is the server's
\* choice, so this is the set of the results it may give
RECURSIVE SqlOrderByCreatedAtDesc(_, _)
SqlOrderByCreatedAtDesc(rows, ids) ==
    IF ids = {}
    THEN {<<>>}
    ELSE UNION { { <<rows[first]>> \o rest : rest \in SqlOrderByCreatedAtDesc(rows, ids \ {first}) } :
                 first \in {id \in ids : \A other \in ids :
                                rows[id].createdAt >= rows[other].createdAt} }

\* getAllBlogPosts(): every result SELECT ... ORDER BY created_at DESC may give
SqlGetAllBlogPosts(rows) == SqlOrderByCreatedAtDesc(rows, DOMAIN rows)

\* eq(column, value) on a VARCHAR column: the default collation ignores letter case
SqlEq(columnValue, s) ==
    columnValue.kind = "string" /\ ToLowerCase(columnValue.v) = ToLowerCase(s)

\* SELECT count(*) ... WHERE test
SqlCount(rows, Test(_)) == Cardinality({id \in DOMAIN rows : Test(rows[id])})

\* getBlogPostStats(): the keys of the object it returns, in the order in which it
\* awaits their counts
StatsKeys == <<"totalPosts", "publishedPosts", "draftPosts", "monthlyPosts">>

\* getBlogPostStats(): the count behind the key, a statement of its own; the monthly
\* one is filtered by and(eq(status, "published")), the only condition the query is
\* given
SqlStatsCount(rows, key) ==
    CASE key = "totalPosts" -> SqlCount(rows, LAMBDA row : TRUE)
      [] key = "publishedPosts" -> SqlCount(rows, LAMBDA row : SqlEq(row.status, "published"))
      [] key = "draftPosts" -> SqlCount(rows, LAMBDA row : SqlEq(row.status, "draft"))
      [] key = "monthlyPosts" -> SqlCount(rows, LAMBDA row : SqlEq(row.status, "published"))

\* getBlogPostStats(): the counts it holds once its next statement has been answered
\* on the table, counted being the ones it held before
SqlCounted(rows, counted) ==
    LET key == StatsKeys[Cardinality(DOMAIN counted) + 1]
    IN  [k \in DOMAIN counted \cup {key} |->
            IF k = key THEN SqlStatsCount(rows, key) ELSE counted[k]]

---------------------------------------------------------------------------
(* server/routes.ts: GET /api/blog-posts *)

\* The test of the search filter, for a lowercased query
SearchMatches(post, lowercaseQuery) ==
    \/ Includes(ToLowerCase(post.title.v), lowercaseQuery)
    \/ Includes(ToLowerCase(post.content.v), lowercaseQuery)
    \/ post.excerpt.kind = "string" /\ Includes(ToLowerCase(post.excerpt.v), lowercaseQuery)
    \/ post.category.kind = "string" /\ Includes(ToLowerCase(post.category.v), lowercaseQuery)
    \/ post.tags.kind = "array" /\
         \E i \in 1..Len(post.tags.v) : Includes(ToLowerCase(post.tags.v[i].v), lowercaseQuery)

\* if (search) posts = posts.filter(...)
RouteSearchFilter(posts, search) ==
    IF Truthy(search)
    THEN LET lowercaseQuery == ToLowerCase(search.v)
         IN  Filter(posts, LAMBDA post : SearchMatches(post, lowercaseQuery))
    ELSE posts

\* if (status && status !== "all") posts = posts.filter(post => post.status === status)
RouteStatusFilter(posts, status) ==
    IF Truthy(status) /\ status # Str("all")
    THEN Filter(posts, LAMBDA post : post.status = status)
    ELSE posts

\* A category filter without the sentinel: "all" is compared like any category
RouteCategoryFilterNoSentinel(posts, category) ==
    IF Truthy(category)
    THEN Filter(posts, LAMBDA post : post.category = category)
    ELSE posts

\* if (category && category !== "all") posts = posts.filter(...)
RouteCategoryFilter(posts, category) ==
    IF Truthy(category) /\ category # Str("all")
    THEN Filter(posts, LAMBDA post : post.category = category)
    ELSE posts

\* A handler that applies the filters as alternatives: an else-if chain, in which
\* the first filter supplied is the only one applied
RouteListAlternatives(posts, query) ==
    IF Truthy(Field(query, "search"))
    THEN RouteSearchFilter(posts, Field(query, "search"))
    ELSE IF Truthy(Field(query, "status")) /\ Field(query, "status") # Str("all")
         THEN RouteStatusFilter(posts, Field(query, "status"))
         ELSE RouteCategoryFilter(posts, Field(query, "category"))

\* The body of the 200 response, from what getAllBlogPosts() returned and req.query
RouteListBlogPosts(posts, query) ==
    RouteCategoryFilter(
        RouteStatusFilter(
            RouteSearchFilter(posts, Field(query, "search")),
            Field(query, "status")),
        Field(query, "category"))

---------------------------------------------------------------------------
(* server/storage.ts: searchBlogPosts, getBlogPostsByStatus, getBlogPostsByCategory *)

\* MemStorage.searchBlogPosts(query): the Map's values, in insertion order, that pass
\* the same test as the route's search filter
MemSearchBlogPosts(posts, query) ==
    LET lowercaseQuery == ToLowerCase(query)
    IN  Filter(MapValues(posts), LAMBDA post : SearchMatches(post, lowercaseQuery))

\* MemStorage.getBlogPostsByStatus(status)
MemGetBlogPostsByStatus(posts, status) ==
    Filter(MapValues(posts), LAMBDA post : post.status = Str(status))

\* MemStorage.getBlogPostsByCategory(category)
MemGetBlogPostsByCategory(posts, category) ==
    Filter(MapValues(posts), LAMBDA post : post.category = Str(category))

\* like(column, `%${query}%`) for a query that holds no % and no _: the column is
\* not NULL and contains the query, letter case ignored by the default collation
SqlLike(columnValue, query) ==
    columnValue.kind = "string" /\ Includes(ToLowerCase(columnValue.v), ToLowerCase(query))

\* MySQLStorage.searchBlogPosts(query): title, content, excerpt or category LIKE the
\* pattern, ORDER BY created_at DESC
SqlSearchBlogPosts(rows, query) ==
    SqlOrderByCreatedAtDesc(rows,
        {id \in DOMAIN rows :
            \/ SqlLike(rows[id].title, query)
            \/ SqlLike(rows[id].content, query)
            \/ SqlLike(rows[id].excerpt, query)
            \/ SqlLike(rows[id].category, query)})

\* MySQLStorage.getBlogPostsByStatus(status)
SqlGetBlogPostsByStatus(rows, status) ==
    SqlOrderByCreatedAtDesc(rows, {id \in DOMAIN rows : SqlEq(rows[id].status, status)})

\* MySQLStorage.getBlogPostsByCategory(category)
SqlGetBlogPostsByCategory(rows, category) ==
    SqlOrderByCreatedAtDesc(rows, {id \in DOMAIN rows : SqlEq(rows[id].category, category)})

---------------------------------------------------------------------------
(* The inputs of the exploration *)

\* Bodies given to createBlogPost: every optional field set; the required fields
\* and a category, with explicit nulls; the optional strings empty and no tag
CreatePayloads ==
    { [ title |-> Str("Alpine Huts"), content |-> Str("<p>Huts of the ALPS</p>"),
        excerpt |-> Str("Huts"), category |-> Str("Travel"), status |-> Str("scheduled"),
        featuredImage |-> Str("https://example.com/hut.jpg"),
        metaDescription |-> Str("Mountain huts"), tags |-> Arr(<<Str("alps")>>),
        publishDate |-> Str("2024-06-01T00:00:00.000Z") ],
      [ title |-> Str("Notes"), content |-> Str("text"), excerpt |-> Null,
        category |-> Str("Travel"), tags |-> Null ],
      [ title |-> Str("Blank"), content |-> Str("body"), excerpt |-> Str(""),
        category |-> Str(""), status |-> Str(""), featuredImage |-> Str(""),
        metaDescription |-> Str(""), tags |-> Arr(<<>>), publishDate |-> Str("") ] }

\* Partials given to updateBlogPost: the empty object; new values; explicit nulls
EmptyObject == [k \in {} |-> Null]
UpdatePartials ==
    { EmptyObject,
      [ title |-> Str("Retitled"), status |-> Str("published"),
        publishDate |-> Str("2024-06-01T00:00:00.000Z") ],
      [ excerpt |-> Null, category |-> Str(""), tags |-> Null, publishDate |-> Null ] }

\* Query strings of GET /api/blog-posts: none, each filter alone, and combinations
Queries ==
    { EmptyObject,
      [search |-> Str("ALPS")],
      [status |-> Str("published")],
      [category |-> Str("Travel")],
      [status |-> Str("published"), category |-> Str("Travel")],
      [status |-> Str("all"), category |-> Str("Travel")],
      [status |-> Str("all")],
      [status |-> Str("all"), category |-> Str("all")],
      [search |-> Str("hut"), status |-> Str("all"), category |-> Str("all")],
      [search |-> Str("alps"), status |-> Str("published"), category |-> Str("Travel")] }

---------------------------------------------------------------------------
(* The state after construction.  storage.ts exports one backend, chosen by     *)
(* USE_MYSQL.  MemStorage's constructor seeds the map before it returns;        *)
(* MySQLStorage's starts initializeSampleData and returns.                      *)

InitStorage ==
    /\ backend \in {"mem", "sql"}
    /\ \E times \in BootReadings(0) :
          LET seeded == MemSeeded(<<>>, 1, SamplePosts, times)
          IN  IF backend = "mem"
              THEN /\ blogPosts = seeded.posts
                   /\ currentBlogPostId = seeded.nextId
                   /\ now = times[Len(times)]
              ELSE blogPosts = <<>> /\ currentBlogPostId = 1 /\ now = 0
    /\ sqlRows = EmptyObject
    /\ sqlAutoInc = 1
    /\ seedPc = IF backend = "sql" THEN <<[at |-> "check"]>> ELSE <<>>
    /\ ret = [op |-> "none"]
    /\ users = <<>>
    /\ currentUserId = 1
    /\ res = [method |-> "none"]
    /\ calls = <<>>

Init ==
    /\ InitStorage
    /\ opsLeft = IF backend = "mem" THEN MaxOps ELSE MaxSqlOps

\* The clock moves on to a later reading
Tick ==
    /\ \E t \in (IF backend = "mem" THEN ClockReadings ELSE SqlClockReadings) :
          t > now /\ now' = t
    /\ UNCHANGED <<backend, calls, userVars, memVars, sqlVars, opsLeft, ret, res>>

---------------------------------------------------------------------------
(* server/routes.ts: what the handlers answer with *)

\* What a rejected query of the database driver throws
DbError == "connect ECONNREFUSED 127.0.0.1:3306"

\* The exchange: the request and the response it was given
Exchange(method, idParam, body, response) ==
    [method |-> method, id |-> idParam, body |-> body,
     status |-> response.status, json |-> response.json]

\* res.status(status).json(json)
Response(status, json) == [status |-> status, json |-> json]

\* A catch block that answers with the error it caught
ServerFaultLeaks(message, error) == Response(500, [message |-> error])

\* The catch blocks: the error is logged, the response is 500 with the handler's message
ServerFault(message, error) == Response(500, [message |-> message])

\* A handler that lets the ZodError fall through to the 500 of its catch block
InvalidDataAsFault(issues) == Response(500, [message |-> "Failed to process blog post"])

\* if (error instanceof z.ZodError): 400 with the issues
InvalidData(issues) == Response(400, [message |-> "Invalid data", errors |-> issues])

\* if (isNaN(id)): 400
InvalidPostId == Response(400, [message |-> "Invalid post ID"])

\* if (!post), if (!deleted): 404
NotFound == Response(404, [message |-> "Blog post not found"])

---------------------------------------------------------------------------
(* Calls in flight.  Node runs one handler at a time and leaves it at an await: *)
(* a MemStorage method has no await in its body and runs as one step; a         *)
(* MySQLStorage method awaits each of its statements, and the database runs the *)
(* statements of all the calls, and of the seeding runs, one at a time, in any  *)
(* order.                                                                       *)

\* Calls that may be in flight together
MaxCalls == 3

\* The call is made by no route handler
NoRequest == [method |-> "none"]

\* storage.op(...) as it starts.  affectedRows is what the driver reports of the
\* call's UPDATE statement
Call(op, id, arg) ==
    [op |-> op, id |-> id, arg |-> arg, at |-> "called", val |-> Undefined,
     affectedRows |-> 0, req |-> NoRequest]

\* The call as the handler of a request makes it, after it has parsed the id and the
\* body
HandlerCall(method, idParam, body, call) ==
    [call EXCEPT !.req = [method |-> method, id |-> idParam, body |-> body]]

\* POST /api/blog-posts once storage.createBlogPost has ended:
\* res.status(201).json(post), or the catch block
PostBlogPostResponse(out) ==
    IF "threw" \in DOMAIN out
    THEN ServerFault("Failed to create blog post", out.threw)
    ELSE Response(201, out.val)

\* PATCH /api/blog-posts/:id once storage.updateBlogPost has ended: 404 if (!post),
\* res.json(post), or the catch block
PatchBlogPostResponse(out) ==
    IF "threw" \in DOMAIN out
    THEN ServerFault("Failed to update blog post", out.threw)
    ELSE IF out.val = Undefined THEN NotFound ELSE Response(200, out.val)

\* GET /api/blog-posts/stats once storage.getBlogPostStats has ended: res.json(stats),
\* or the catch block
StatsBlogPostsResponse(out) ==
    IF "threw" \in DOMAIN out
    THEN ServerFault("Failed to fetch blog post stats", out.threw)
    ELSE Response(200, out.val)

\* What the handler that awaits the call answers when the call ends with out; a call
\* that no handler made leaves the last exchange as it is
Answer(req, out) ==
    IF req.method = "none"
    THEN res
    ELSE Exchange(req.method, req.id, req.body,
                  CASE req.method = "POST" -> PostBlogPostResponse(out)
                    [] req.method = "PATCH" -> PatchBlogPostResponse(out)
                    [] req.method = "GET" -> StatsBlogPostsResponse(out))

\* A request arrives and its handler calls the storage, whatever the seeding run of
\* the server is doing
Arrive(call) ==
    /\ opsLeft > 0
    /\ calls' = Append(calls, call)
    /\ opsLeft' = opsLeft - 1
    /\ UNCHANGED <<backend, userVars, memVars, sqlVars, now, ret, res>>

\* The call c is at the step named, in the backend named
CallAt(c, storage, op, at) ==
    /\ backend = storage
    /\ calls[c].op = op
    /\ calls[c].at = at

\* The call c moves on to its next statement, with the id it holds
Await(c, at, id) ==
    /\ calls' = [calls EXCEPT ![c].at = at, ![c].id = id]
    /\ UNCHANGED <<ret, res>>

\* true or false, as a call in flight holds it
Bool(b) == [kind |-> "boolean", v |-> b]

\* The call c returns val to its caller, and the handler that awaited it answers
Return(c, id, val) ==
    LET out == [op |-> calls[c].op, call |-> c, id |-> id, arg |-> calls[c].arg,
                val |-> val]
    IN  /\ calls' = [calls EXCEPT ![c].at = "returned", ![c].id = id, ![c].val = val]
        /\ ret' = out
        /\ res' = Answer(calls[c].req, out)

\* The call c throws error to its caller, and the handler that awaited it answers
Throw(c, error) ==
    LET out == [op |-> calls[c].op, call |-> c, id |-> calls[c].id,
                arg |-> calls[c].arg, threw |-> error]
    IN  /\ calls' = [calls EXCEPT ![c].at = "threw"]
        /\ ret' = out
        /\ res' = Answer(calls[c].req, out)

---------------------------------------------------------------------------
(* MemStorage: the mutating calls *)

\* A createBlogPost that takes the id after the largest one in the Map
MemCreateBlogPostAfterLargest(insertPost) ==
    LET largest == CHOOSE k \in MapKeys(blogPosts) \cup {0} :
                       \A other \in MapKeys(blogPosts) : other <= k
        id == largest + 1
        post == MemNewPost(id, insertPost, now)
    IN  /\ backend = "mem"
        /\ opsLeft > 0
        /\ currentBlogPostId' = id + 1
        /\ blogPosts' = MapSet(blogPosts, id, post)
        /\ ret' = [op |-> "createBlogPost", arg |-> insertPost, val |-> post]
        /\ opsLeft' = opsLeft - 1
        /\ UNCHANGED <<backend, calls, userVars, sqlVars, now>>

\* createBlogPost(insertPost)
MemCreateBlogPost(insertPost) ==
    LET id == currentBlogPostId
        post == MemNewPost(id, insertPost, now)
    IN  /\ backend = "mem"
        /\ opsLeft > 0
        /\ currentBlogPostId' = currentBlogPostId + 1
        /\ blogPosts' = MapSet(blogPosts, id, post)
        /\ ret' = [op |-> "createBlogPost", arg |-> insertPost, val |-> post]
        /\ opsLeft' = opsLeft - 1
        /\ UNCHANGED <<backend, calls, userVars, sqlVars, now>>

\* updateBlogPost(id, updatePost)
MemUpdateBlogPost(id, updatePost) ==
    LET existingPost == MapGet(blogPosts, id)
    IN  /\ backend = "mem"
        /\ opsLeft > 0
        /\ IF existingPost = Undefined
           THEN /\ ret' = [op |-> "updateBlogPost", id |-> id, arg |-> updatePost,
                           val |-> Undefined]
                /\ UNCHANGED blogPosts
           ELSE LET updatedPost == MemUpdatedPost(existingPost, updatePost, now)
                IN  /\ blogPosts' = MapSet(blogPosts, id, updatedPost)
                    /\ ret' = [op |-> "updateBlogPost", id |-> id, arg |-> updatePost,
                               val |-> updatedPost]
        /\ opsLeft' = opsLeft - 1
        /\ UNCHANGED <<backend, calls, userVars, currentBlogPostId, sqlVars, now>>

\* A deleteBlogPost that answers true whether or not the key was there
MemDeleteBlogPostAlwaysTrue(id) ==
    /\ backend = "mem"
    /\ opsLeft > 0
    /\ blogPosts' = MapDelete(blogPosts, id)
    /\ ret' = [op |-> "deleteBlogPost", id |-> id, val |-> TRUE]
    /\ opsLeft' = opsLeft - 1
    /\ UNCHANGED <<backend, calls, userVars, currentBlogPostId, sqlVars, now>>

\* deleteBlogPost(id): Map.delete answers whether the key was there
MemDeleteBlogPost(id) ==
    /\ backend = "mem"
    /\ opsLeft > 0
    /\ blogPosts' = MapDelete(blogPosts, id)
    /\ ret' = [op |-> "deleteBlogPost", id |-> id, val |-> MapHas(blogPosts, id)]
    /\ opsLeft' = opsLeft - 1
    /\ UNCHANGED <<backend, calls, userVars, currentBlogPostId, sqlVars, now>>

\* A createBlogPost that is left between reading the counter and writing it back
CallMemCreateSuspends(c) ==
    \/ /\ CallAt(c, "mem", "createBlogPost", "called")
       /\ Await(c, "allocated", currentBlogPostId)
       /\ UNCHANGED <<backend, userVars, memVars, sqlVars, now, opsLeft>>
    \/ /\ CallAt(c, "mem", "createBlogPost", "allocated")
       /\ LET id == calls[c].id
              post == MemNewPost(id, calls[c].arg, now)
          IN  /\ currentBlogPostId' = id + 1
              /\ blogPosts' = MapSet(blogPosts, id, post)
              /\ Return(c, id, post)
       /\ UNCHANGED <<backend, userVars, sqlVars, now, opsLeft>>

\* MemStorage.createBlogPost, as a call in flight: the counter is read and
\* incremented, the post is built and set, in one run of the body
CallMemCreate(c) ==
    LET id == currentBlogPostId
        post == MemNewPost(id, calls[c].arg, now)
    IN  /\ CallAt(c, "mem", "createBlogPost", "called")
        /\ currentBlogPostId' = currentBlogPostId + 1
        /\ blogPosts' = MapSet(blogPosts, id, post)
        /\ Return(c, id, post)
        /\ UNCHANGED <<backend, userVars, sqlVars, now, opsLeft>>

\* An updateBlogPost that is left between reading the post and writing the merge
CallMemUpdateSuspends(c) ==
    \/ /\ CallAt(c, "mem", "updateBlogPost", "called")
       /\ calls' = [calls EXCEPT ![c].at = "read", ![c].val = MapGet(blogPosts, calls[c].id)]
       /\ UNCHANGED <<backend, userVars, memVars, sqlVars, now, opsLeft, ret, res>>
    \/ /\ CallAt(c, "mem", "updateBlogPost", "read")
       /\ LET existingPost == calls[c].val
          IN  IF existingPost = Undefined
              THEN Return(c, calls[c].id, Undefined) /\ UNCHANGED blogPosts
              ELSE LET updatedPost == MemUpdatedPost(existingPost, calls[c].arg, now)
                   IN  /\ blogPosts' = MapSet(blogPosts, calls[c].id, updatedPost)
                       /\ Return(c, calls[c].id, updatedPost)
       /\ UNCHANGED <<backend, userVars, currentBlogPostId, sqlVars, now, opsLeft>>

\* MemStorage.updateBlogPost, as a call in flight: get, merge and set in one run of
\* the body
CallMemUpdate(c) ==
    LET id == calls[c].id
        existingPost == MapGet(blogPosts, id)
    IN  /\ CallAt(c, "mem", "updateBlogPost", "called")
        /\ IF existingPost = Undefined
           THEN Return(c, id, Undefined) /\ UNCHANGED blogPosts
           ELSE LET updatedPost == MemUpdatedPost(existingPost, calls[c].arg, now)
                IN  /\ blogPosts' = MapSet(blogPosts, id, updatedPost)
                    /\ Return(c, id, updatedPost)
        /\ UNCHANGED <<backend, userVars, currentBlogPostId, sqlVars, now, opsLeft>>

\* MemStorage.deleteBlogPost, as a call in flight
CallMemDelete(c) ==
    /\ CallAt(c, "mem", "deleteBlogPost", "called")
    /\ blogPosts' = MapDelete(blogPosts, calls[c].id)
    /\ Return(c, calls[c].id, Bool(MapHas(blogPosts, calls[c].id)))
    /\ UNCHANGED <<backend, userVars, currentBlogPostId, sqlVars, now, opsLeft>>

---------------------------------------------------------------------------
(* MySQLStorage: the mutating calls, statement by statement, and                *)
(* initializeSampleData.  Each await of a statement is a step of its own.       *)

\* createBlogPost: await this.db.insert(blogPosts).values(postData)
CallSqlInsert(c) ==
    /\ CallAt(c, "sql", "createBlogPost", "called")
    /\ sqlRows' = SqlWithRow(sqlRows, sqlAutoInc,
                             SqlInsertedRow(sqlAutoInc, SqlPostData(calls[c].arg), now))
    /\ sqlAutoInc' = sqlAutoInc + 1
    /\ Await(c, "inserted", sqlAutoInc)
    /\ UNCHANGED <<backend, userVars, memVars, seedPc, now, opsLeft>>

\* updateBlogPost: set(updateData) throws, or
\* await this.db.update(blogPosts).set(updateData).where(eq(blogPosts.id, id))
CallSqlUpdate(c) ==
    LET id == calls[c].id
        updateData == SqlUpdateData(calls[c].arg)
    IN  /\ CallAt(c, "sql", "updateBlogPost", "called")
        /\ IF SqlSetThrows(updateData)
           THEN /\ Throw(c, "No values to set")
                /\ UNCHANGED sqlRows
           ELSE /\ sqlRows' = IF id \in DOMAIN sqlRows
                              THEN SqlWithRow(sqlRows, id,
                                              SqlUpdatedRow(sqlRows[id], updateData, now))
                              ELSE sqlRows
                /\ calls' = [calls EXCEPT ![c].at = "updated",
                                          ![c].affectedRows =
                                              IF id \in DOMAIN sqlRows THEN 1 ELSE 0]
                /\ UNCHANGED <<ret, res>>
        /\ UNCHANGED <<backend, userVars, memVars, sqlAutoInc, seedPc, now, opsLeft>>

\* createBlogPost and updateBlogPost: await this.getBlogPost(id), and return what it
\* answers
CallSqlSelect(c) ==
    /\ backend = "sql"
    /\ calls[c].op \in {"createBlogPost", "updateBlogPost"}
    /\ calls[c].at \in {"inserted", "updated"}
    /\ Return(c, calls[c].id, SqlGetBlogPost(sqlRows, calls[c].id))
    /\ UNCHANGED <<backend, userVars, memVars, sqlVars, now, opsLeft>>

\* deleteBlogPost, as a call in flight: the delete, and affectedRows > 0
CallSqlDelete(c) ==
    /\ CallAt(c, "sql", "deleteBlogPost", "called")
    /\ sqlRows' = SqlWithoutRow(sqlRows, calls[c].id)
    /\ Return(c, calls[c].id, Bool(calls[c].id \in DOMAIN sqlRows))
    /\ UNCHANGED <<backend, userVars, memVars, sqlAutoInc, seedPc, now, opsLeft>>

\* getBlogPostStats: the next of its four counts, each awaited on the table as the
\* statement finds it; after the fourth, the object of the four answers
CallSqlCount(c) ==
    /\ backend = "sql"
    /\ calls[c].op = "getBlogPostStats"
    /\ calls[c].at \in {"called", "counted"}
    /\ LET counted == SqlCounted(sqlRows, IF calls[c].at = "called"
                                         THEN EmptyObject
                                         ELSE calls[c].val)
       IN  IF Cardinality(DOMAIN counted) < Len(StatsKeys)
           THEN /\ calls' = [calls EXCEPT ![c].at = "counted", ![c].val = counted]
                /\ UNCHANGED <<ret, res>>
           ELSE Return(c, calls[c].id, counted)
    /\ UNCHANGED <<backend, userVars, memVars, sqlVars, now, opsLeft>>

\* The database rejects the statement the call awaits: the first one, and nothing is
\* written, the getBlogPost after the insert or the update, whose row is written, or
\* a count
CallSqlRejected(c) ==
    /\ backend = "sql"
    /\ calls[c].at \in {"called", "inserted", "updated", "counted"}
    /\ ~(calls[c].op = "updateBlogPost" /\ calls[c].at = "called"
           /\ SqlSetThrows(SqlUpdateData(calls[c].arg)))
    /\ Throw(c, DbError)
    /\ UNCHANGED <<backend, userVars, memVars, sqlVars, now, opsLeft>>

\* deleteBlogPost(id): one statement, affectedRows > 0
SqlDeleteBlogPost(id) ==
    /\ backend = "sql"
    /\ opsLeft > 0
    /\ sqlRows' = SqlWithoutRow(sqlRows, id)
    /\ ret' = [op |-> "deleteBlogPost", id |-> id, val |-> id \in DOMAIN sqlRows]
    /\ opsLeft' = opsLeft - 1
    /\ UNCHANGED <<backend, calls, userVars, memVars, sqlAutoInc, seedPc, now>>

\* initializeSampleData of the instance r: await this.db.select().from(blogPosts).limit(1),
\* and the return when a row is there
SeedCheck(r) ==
    /\ backend = "sql"
    /\ seedPc[r].at = "check"
    /\ seedPc' = [seedPc EXCEPT ![r] = IF DOMAIN sqlRows # {}
                                       THEN [at |-> "done"]
                                       ELSE [at |-> "insert", i |-> 1]]
    /\ UNCHANGED <<backend, calls, userVars, memVars, sqlRows, sqlAutoInc, now, opsLeft, ret, res>>

\* initializeSampleData, in await this.createBlogPost(post) of the next sample: the
\* insert
SeedInsert(r) ==
    /\ backend = "sql"
    /\ seedPc[r].at = "insert"
    /\ sqlRows' = SqlWithRow(sqlRows, sqlAutoInc,
                             SqlInsertedRow(sqlAutoInc, SqlPostData(SamplePosts[seedPc[r].i]),
                                            now))
    /\ sqlAutoInc' = sqlAutoInc + 1
    /\ seedPc' = [seedPc EXCEPT ![r] = [at |-> "select", i |-> seedPc[r].i]]
    /\ UNCHANGED <<backend, calls, userVars, memVars, now, opsLeft, ret, res>>

\* initializeSampleData, in await this.createBlogPost(post): the getBlogPost after the
\* insert, whose answer the loop drops; then the next sample, or the end of the run
SeedSelect(r) ==
    /\ backend = "sql"
    /\ seedPc[r].at = "select"
    /\ seedPc' = [seedPc EXCEPT ![r] = IF seedPc[r].i = Len(SamplePosts)
                                       THEN [at |-> "done"]
                                       ELSE [at |-> "insert", i |-> seedPc[r].i + 1]]
    /\ UNCHANGED <<backend, calls, userVars, memVars, sqlRows, sqlAutoInc, now, opsLeft, ret, res>>

\* initializeSampleData: the statement the run awaits is rejected, which the catch
\* block logs, or the process ends: the run ends with what it has inserted
SeedFails(r) ==
    /\ backend = "sql"
    /\ seedPc[r].at \in {"check", "insert", "select"}
    /\ seedPc' = [seedPc EXCEPT ![r] = [at |-> "failed"]]
    /\ UNCHANGED <<backend, calls, userVars, memVars, sqlRows, sqlAutoInc, now, opsLeft, ret, res>>

\* A server process is started against the same database: the instance r again, whose
\* earlier process has ended, or one more instance beside those that run.  The
\* constructor of its MySQLStorage starts an initializeSampleData of its own, wherever
\* the runs of the others stand; the table and its AUTO_INCREMENT counter are the
\* database's and stay
SqlBoot(r) ==
    /\ backend = "sql"
    /\ opsLeft > 0
    /\ \/ r \in DOMAIN seedPc /\ seedPc[r].at \in {"done", "failed"}
       \/ r = Len(seedPc) + 1
    /\ seedPc' = [i \in DOMAIN seedPc \cup {r} |-> IF i = r THEN [at |-> "check"] ELSE seedPc[i]]
    /\ ret' = [op |-> "boot"]
    /\ opsLeft' = opsLeft - 1
    /\ UNCHANGED <<backend, calls, userVars, memVars, sqlRows, sqlAutoInc, now, res>>

---------------------------------------------------------------------------
(* What the exported storage answers, whichever backend it is *)

\* getAllBlogPosts(): the results the call may give
GetAllResults ==
    IF backend = "mem" THEN {MemGetAllBlogPosts(blogPosts)} ELSE SqlGetAllBlogPosts(sqlRows)

\* totalPosts of getBlogPostStats(), called now: of the relational backend, the answer
\* of the first of its counts
TotalPosts ==
    IF backend = "mem"
    THEN MemGetBlogPostStats(blogPosts, now).totalPosts
    ELSE SqlStatsCount(sqlRows, "totalPosts")

---------------------------------------------------------------------------
(* The next-state relation *)

\* The ids a caller may name: every id issued so far and the next one, never issued
CallIds == 1..(IF backend = "mem" THEN currentBlogPostId ELSE sqlAutoInc)

\* The ids the store has issued
IssuedIds == 1..((IF backend = "mem" THEN currentBlogPostId ELSE sqlAutoInc) - 1)

\* The posts in the store, whichever backend holds them
StoredIds == IF backend = "mem" THEN MapKeys(blogPosts) ELSE DOMAIN sqlRows
StoredPost(id) == IF backend = "mem" THEN MapGet(blogPosts, id) ELSE sqlRows[id]

Next ==
    \/ Tick
    \/ \E p \in CreatePayloads : InsertValid(p) /\ MemCreateBlogPost(p) /\ UNCHANGED res
    \/ \E id \in CallIds : \E u \in UpdatePartials : UpdateValid(u) /\ MemUpdateBlogPost(id, u) /\ UNCHANGED res
    \/ \E id \in CallIds : MemDeleteBlogPost(id) /\ UNCHANGED res
    \/ \E r \in DOMAIN seedPc : SeedCheck(r)
    \/ \E r \in DOMAIN seedPc : SeedInsert(r)
    \/ \E r \in DOMAIN seedPc : SeedSelect(r)
    \/ \E r \in DOMAIN seedPc : SeedFails(r)
    \/ \E p \in CreatePayloads :
          InsertValid(p) /\ backend = "sql" /\ Arrive(Call("createBlogPost", 0, p))
    \/ \E id \in CallIds : \E u \in UpdatePartials :
          UpdateValid(u) /\ backend = "sql" /\ Arrive(Call("updateBlogPost", id, u))
    \/ \E c \in DOMAIN calls : CallSqlInsert(c)
    \/ \E c \in DOMAIN calls : CallSqlUpdate(c)
    \/ \E c \in DOMAIN calls : CallSqlSelect(c)
    \/ \E id \in CallIds : SqlDeleteBlogPost(id) /\ UNCHANGED res

Spec == Init /\ [][Next]_vars

---------------------------------------------------------------------------
(* server/routes.ts: the handlers of /api/blog-posts, over the exported storage *)

\* The :id segments the requests carry
IdParams == {"1", "4", "4x", "abc"}

\* The bodies POST carries: two the schema accepts, one of them with a status outside
\* draft/published/scheduled; an empty title; no content; a status that is no string
PostBodies ==
    { [title |-> Str("Notes"), content |-> Str("text"), excerpt |-> Null,
       category |-> Str("Travel"), tags |-> Null],
      [title |-> Str("Archive"), content |-> Str("old"), status |-> Str("archived")],
      [title |-> Str(""), content |-> Str("text")],
      [title |-> Str("No content"), status |-> Str("draft")],
      [title |-> Str("Typed"), content |-> Str("text"), status |-> Num(1)] }

\* The bodies PATCH carries: {}; a new title; a status outside the three; an empty
\* title; an empty content; tags that are no array
PatchBodies ==
    { EmptyObject,
      [title |-> Str("Retitled")],
      [status |-> Str("archived")],
      [title |-> Str("")],
      [content |-> Str(""), status |-> Str("published")],
      [tags |-> Str("alps")] }

\* A query of the relational storage is rejected before it changes a row
StorageRejects(op) ==
    /\ backend = "sql"
    /\ opsLeft > 0
    /\ ret' = [op |-> op, threw |-> DbError]
    /\ opsLeft' = opsLeft - 1
    /\ UNCHANGED <<backend, calls, userVars, memVars, sqlVars, now>>

\* The handler answers before it reaches the storage
StorageNotInvoked ==
    /\ opsLeft > 0
    /\ opsLeft' = opsLeft - 1
    /\ UNCHANGED <<backend, calls, userVars, memVars, sqlVars, now, ret>>

\* storage.getBlogPost(id)
GetBlogPost(id) ==
    /\ ret' = [op |-> "getBlogPost", id |-> id,
               val |-> IF backend = "mem"
                       THEN MemGetBlogPost(blogPosts, id)
                       ELSE SqlGetBlogPost(sqlRows, id)]
    /\ opsLeft > 0
    /\ opsLeft' = opsLeft - 1
    /\ UNCHANGED <<backend, calls, userVars, memVars, sqlVars, now>>

\* storage.getAllBlogPosts()
GetAllBlogPosts ==
    /\ \E posts \in GetAllResults : ret' = [op |-> "getAllBlogPosts", val |-> posts]
    /\ opsLeft > 0
    /\ opsLeft' = opsLeft - 1
    /\ UNCHANGED <<backend, calls, userVars, memVars, sqlVars, now>>

\* GET /api/blog-posts
HttpGetBlogPosts(query) ==
    \/ /\ GetAllBlogPosts
       /\ res' = Exchange("GET", "", query, Response(200, RouteListBlogPosts(ret'.val, query)))
    \/ /\ StorageRejects("getAllBlogPosts")
       /\ res' = Exchange("GET", "", query, ServerFault("Failed to fetch blog posts", ret'.threw))

\* GET /api/blog-posts/:id
HttpGetBlogPost(idParam) ==
    LET id == ParseInt(idParam)
    IN  \/ /\ id = NaN
           /\ StorageNotInvoked
           /\ res' = Exchange("GET", idParam, EmptyObject, InvalidPostId)
        \/ /\ id # NaN
           /\ GetBlogPost(id.v)
           /\ res' = Exchange("GET", idParam, EmptyObject,
                               IF ret'.val = Undefined THEN NotFound ELSE Response(200, ret'.val))
        \/ /\ id # NaN
           /\ StorageRejects("getBlogPost")
           /\ res' = Exchange("GET", idParam, EmptyObject,
                               ServerFault("Failed to fetch blog post", ret'.threw))

\* POST /api/blog-posts: the schema, then await storage.createBlogPost, which the
\* in-memory storage ends in the same step and the relational one statement by
\* statement; the handler answers when the call ends
HttpPostBlogPost(body) ==
    \/ /\ ~InsertValid(body)
       /\ StorageNotInvoked
       /\ res' = Exchange("POST", "", body, InvalidData(InsertIssues(body)))
    \/ /\ InsertValid(body)
       /\ MemCreateBlogPost(InsertParse(body))
       /\ res' = Exchange("POST", "", body, PostBlogPostResponse(ret'))
    \/ /\ InsertValid(body)
       /\ backend = "sql"
       /\ Arrive(HandlerCall("POST", "", body,
                             Call("createBlogPost", 0, InsertParse(body))))

\* PATCH /api/blog-posts/:id: parseInt, the schema, then await storage.updateBlogPost,
\* which the in-memory storage ends in the same step and the relational one statement
\* by statement; the handler answers when the call ends
HttpPatchBlogPost(idParam, body) ==
    LET id == ParseInt(idParam)
    IN  \/ /\ id = NaN
           /\ StorageNotInvoked
           /\ res' = Exchange("PATCH", idParam, body, InvalidPostId)
        \/ /\ id # NaN
           /\ ~UpdateValid(body)
           /\ StorageNotInvoked
           /\ res' = Exchange("PATCH", idParam, body, InvalidData(UpdateIssues(body)))
        \/ /\ id # NaN
           /\ UpdateValid(body)
           /\ MemUpdateBlogPost(id.v, UpdateParse(body))
           /\ res' = Exchange("PATCH", idParam, body, PatchBlogPostResponse(ret'))
        \/ /\ id # NaN
           /\ UpdateValid(body)
           /\ backend = "sql"
           /\ Arrive(HandlerCall("PATCH", idParam, body,
                                 Call("updateBlogPost", id.v, UpdateParse(body))))

\* DELETE /api/blog-posts/:id
HttpDeleteBlogPost(idParam) ==
    LET id == ParseInt(idParam)
    IN  \/ /\ id = NaN
           /\ StorageNotInvoked
           /\ res' = Exchange("DELETE", idParam, EmptyObject, InvalidPostId)
        \/ /\ id # NaN
           /\ MemDeleteBlogPost(id.v) \/ SqlDeleteBlogPost(id.v)
           /\ res' = Exchange("DELETE", idParam, EmptyObject,
                               IF ret'.val
                               THEN Response(200, [message |-> "Blog post deleted successfully"])
                               ELSE NotFound)
        \/ /\ id # NaN
           /\ StorageRejects("deleteBlogPost")
           /\ res' = Exchange("DELETE", idParam, EmptyObject,
                               ServerFault("Failed to delete blog post", ret'.threw))

InitHttp ==
    /\ InitStorage
    /\ opsLeft = MaxHttpOps

NextHttp ==
    \/ \E r \in DOMAIN seedPc : SeedCheck(r)
    \/ \E r \in DOMAIN seedPc : SeedInsert(r)
    \/ \E r \in DOMAIN seedPc : SeedSelect(r)
    \/ \E r \in DOMAIN seedPc : SeedFails(r)
    \/ \E c \in DOMAIN calls : CallSqlInsert(c)
    \/ \E c \in DOMAIN calls : CallSqlUpdate(c)
    \/ \E c \in DOMAIN calls : CallSqlSelect(c)
    \/ \E c \in DOMAIN calls : CallSqlRejected(c)
    \/ HttpGetBlogPosts(EmptyObject)
    \/ \E idParam \in IdParams : HttpGetBlogPost(idParam)
    \/ \E body \in PostBodies : HttpPostBlogPost(body)
    \/ \E idParam \in IdParams : \E body \in PatchBodies : HttpPatchBlogPost(idParam, body)
    \/ \E idParam \in IdParams : HttpDeleteBlogPost(idParam)

SpecHttp == InitHttp /\ [][NextHttp]_vars

---------------------------------------------------------------------------
(* MemStorage: the user operations *)

\* Bodies given to createUser: two of the same username, one of another
InsertUsers ==
    { [username |-> Str("alice"), password |-> Str("hash-a")],
      [username |-> Str("alice"), password |-> Str("hash-b")],
      [username |-> Str("bob"), password |-> Str("hash-a")] }
Usernames == {"alice", "bob", "carol"}

\* createUser(insertUser): the next id, { ...insertUser, id }, users.set(id, user)
MemCreateUser(insertUser) ==
    LET id == currentUserId
        user == Spread(insertUser, [id |-> id])
    IN  /\ backend = "mem"
        /\ opsLeft > 0
        /\ currentUserId' = currentUserId + 1
        /\ users' = MapSet(users, id, user)
        /\ ret' = [op |-> "createUser", arg |-> insertUser, val |-> user]
        /\ opsLeft' = opsLeft - 1
        /\ UNCHANGED <<backend, calls, memVars, sqlVars, now, res>>

\* getUser(id): users.get(id)
MemGetUser(id) ==
    /\ backend = "mem"
    /\ ret' = [op |-> "getUser", id |-> id, val |-> MapGet(users, id)]
    /\ UNCHANGED <<backend, calls, userVars, memVars, sqlVars, now, opsLeft, res>>

\* getUserByUsername(username): Array.from(users.values()).find(...), the first user
\* of that username in insertion order, or undefined
MemGetUserByUsername(username) ==
    LET found == Filter(MapValues(users), LAMBDA user : user.username = Str(username))
    IN  /\ backend = "mem"
        /\ ret' = [op |-> "getUserByUsername", arg |-> username,
                   val |-> IF found = <<>> THEN Undefined ELSE found[1]]
        /\ UNCHANGED <<backend, calls, userVars, memVars, sqlVars, now, opsLeft, res>>

InitUsers ==
    /\ InitStorage
    /\ backend = "mem"
    /\ opsLeft = MaxUserOps

NextUsers ==
    \/ \E u \in InsertUsers : MemCreateUser(u)
    \/ \E id \in 1..currentUserId : MemGetUser(id)
    \/ \E name \in Usernames : MemGetUserByUsername(name)

SpecUsers == InitUsers /\ [][NextUsers]_vars

---------------------------------------------------------------------------
(* The list endpoint, asked of a store that a few calls have changed *)

\* GET /api/blog-posts?search=&status=&category=: getAllBlogPosts(), the three
\* filters, res.json(posts)
ListBlogPosts(query) ==
    /\ \E posts \in GetAllResults :
          ret' = [op |-> "listBlogPosts", query |-> query, status |-> 200,
                  body |-> RouteListBlogPosts(posts, query)]
    /\ UNCHANGED <<backend, calls, userVars, memVars, sqlVars, now, opsLeft, res>>

\* The route reads the store through getAllBlogPosts() alone; the store here is the
\* in-memory one
InitList ==
    /\ InitStorage
    /\ backend = "mem"
    /\ opsLeft = MaxListOps

NextList ==
    \/ \E p \in CreatePayloads : InsertValid(p) /\ MemCreateBlogPost(p) /\ UNCHANGED res
    \/ \E id \in CallIds : \E u \in UpdatePartials : UpdateValid(u) /\ MemUpdateBlogPost(id, u) /\ UNCHANGED res
    \/ \E id \in CallIds : MemDeleteBlogPost(id) /\ UNCHANGED res
    \/ \E q \in Queries : ListBlogPosts(q)

SpecList == InitList /\ [][NextList]_vars

---------------------------------------------------------------------------
(* The relational backend over several boots of the server *)

\* Storage calls and boots a behaviour may hold
MaxBootOps == 3
\* Server instances that may run against the one database
MaxInstances == 2

\* What the requests create while the instances boot
BootPayloads == {[title |-> Str("Notes"), content |-> Str("text")]}

InitBoots ==
    /\ InitStorage
    /\ backend = "sql"
    /\ opsLeft = MaxBootOps

NextBoots ==
    \/ \E r \in DOMAIN seedPc : SeedCheck(r)
    \/ \E r \in DOMAIN seedPc : SeedInsert(r)
    \/ \E r \in DOMAIN seedPc : SeedSelect(r)
    \/ \E r \in DOMAIN seedPc : SeedFails(r)
    \/ \E r \in 1..MaxInstances : SqlBoot(r)
    \/ \E p \in BootPayloads : InsertValid(p) /\ Arrive(Call("createBlogPost", 0, p))
    \/ \E c \in DOMAIN calls : CallSqlInsert(c)
    \/ \E c \in DOMAIN calls : CallSqlSelect(c)
    \/ \E id \in CallIds : SqlDeleteBlogPost(id) /\ UNCHANGED res

SpecBoots == InitBoots /\ [][NextBoots]_vars

---------------------------------------------------------------------------
(* One in-memory server: its calls, its reads and its restarts *)

\* Storage calls and restarts a behaviour may hold
MaxMemOps == 3

\* A constructor that leaves the users and their counter as they were
MemRestartKeepsUsers ==
    \E times \in BootReadings(now) :
        LET seeded == MemSeeded(<<>>, 1, SamplePosts, times)
        IN  /\ backend = "mem"
            /\ opsLeft > 0
            /\ blogPosts' = seeded.posts
            /\ currentBlogPostId' = seeded.nextId
            /\ now' = times[Len(times)]
            /\ ret' = [op |-> "restart"]
            /\ opsLeft' = opsLeft - 1
            /\ UNCHANGED <<backend, calls, userVars, sqlVars, res>>

\* The process is started again: new MemStorage() gives empty maps, counters at 1, and
\* initializeSampleData creates the three samples, each at the reading of its own
\* createBlogPost call
MemRestart ==
    \E times \in BootReadings(now) :
        LET seeded == MemSeeded(<<>>, 1, SamplePosts, times)
        IN  /\ backend = "mem"
            /\ opsLeft > 0
            /\ users' = <<>>
            /\ currentUserId' = 1
            /\ blogPosts' = seeded.posts
            /\ currentBlogPostId' = seeded.nextId
            /\ now' = times[Len(times)]
            /\ ret' = [op |-> "restart"]
            /\ opsLeft' = opsLeft - 1
            /\ UNCHANGED <<backend, calls, sqlVars, res>>

\* The read calls of the storage interface, with the arguments they are given
ReadCalls ==
    {[op |-> "getAllBlogPosts"], [op |-> "getBlogPostStats"]}
        \cup {[op |-> "getBlogPost", id |-> id] : id \in {1, 4}}
        \cup {[op |-> "searchBlogPosts", query |-> "Hut"]}
        \cup {[op |-> "getBlogPostsByStatus", status |-> "published"]}
        \cup {[op |-> "getBlogPostsByCategory", category |-> "Travel"]}

\* Query strings of GET /api/blog-posts among the reads: none, and two filters
ReadQueries ==
    { EmptyObject,
      [status |-> Str("published"), category |-> Str("Travel")] }

\* What the read call answers
MemReadResult(posts, call, t) ==
    CASE call.op = "getAllBlogPosts" -> MemGetAllBlogPosts(posts)
      [] call.op = "getBlogPost" -> MemGetBlogPost(posts, call.id)
      [] call.op = "searchBlogPosts" -> MemSearchBlogPosts(posts, call.query)
      [] call.op = "getBlogPostsByStatus" -> MemGetBlogPostsByStatus(posts, call.status)
      [] call.op = "getBlogPostsByCategory" -> MemGetBlogPostsByCategory(posts, call.category)
      [] call.op = "getBlogPostStats" -> MemGetBlogPostStats(posts, t)

\* The Map with its entries in the order of the array of posts
MapInOrderOf(array) == [i \in 1..Len(array) |-> [k |-> array[i].id, v |-> array[i]]]

\* A read whose sort works on the collection itself: after getAllBlogPosts the Map
\* iterates newest first
MemReadSortsInPlace(call) ==
    /\ backend = "mem"
    /\ ret' = [op |-> call.op, arg |-> call, val |-> MemReadResult(blogPosts, call, now)]
    /\ blogPosts' = IF call.op = "getAllBlogPosts" THEN MapInOrderOf(ret'.val) ELSE blogPosts
    /\ UNCHANGED <<backend, calls, userVars, currentBlogPostId, sqlVars, now, opsLeft, res>>

\* A read call of MemStorage: Array.from(this.blogPosts.values()) is a new array, sort
\* and filter work on it, Map.get reads; the Map and the counters are not written
MemRead(call) ==
    /\ backend = "mem"
    /\ ret' = [op |-> call.op, arg |-> call, val |-> MemReadResult(blogPosts, call, now)]
    /\ UNCHANGED <<backend, calls, userVars, memVars, sqlVars, now, opsLeft, res>>

\* GET /api/blog-posts/stats over MemStorage: storage.getBlogPostStats(),
\* res.json(stats)
StatsOfBlogPosts ==
    /\ backend = "mem"
    /\ ret' = [op |-> "statsOfBlogPosts", status |-> 200,
               body |-> MemGetBlogPostStats(blogPosts, now)]
    /\ UNCHANGED <<backend, calls, userVars, memVars, sqlVars, now, opsLeft, res>>

\* GET /api/blog-posts/:id: parseInt, storage.getBlogPost(id), 400 / 404 / the post
ShowBlogPost(idParam) ==
    LET id == ParseInt(idParam)
        post == IF backend = "mem"
                THEN MemGetBlogPost(blogPosts, id.v)
                ELSE SqlGetBlogPost(sqlRows, id.v)
        response == IF id = NaN THEN InvalidPostId
                    ELSE IF post = Undefined THEN NotFound ELSE Response(200, post)
    IN  /\ ret' = [op |-> "showBlogPost", id |-> idParam,
                   status |-> response.status, body |-> response.json]
        /\ UNCHANGED <<backend, calls, userVars, memVars, sqlVars, now, opsLeft, res>>

InitMem ==
    /\ InitStorage
    /\ backend = "mem"
    /\ opsLeft = MaxMemOps

NextMem ==
    \/ Tick
    \/ \E p \in CreatePayloads : InsertValid(p) /\ MemCreateBlogPost(p) /\ UNCHANGED res
    \/ \E id \in CallIds : \E u \in UpdatePartials : UpdateValid(u) /\ MemUpdateBlogPost(id, u) /\ UNCHANGED res
    \/ \E id \in CallIds : MemDeleteBlogPost(id) /\ UNCHANGED res
    \/ \E u \in InsertUsers : MemCreateUser(u)
    \/ MemRestart

SpecMem == InitMem /\ [][NextMem]_vars

\* Calls that change the store, between which the reads are made
MaxReadOps == 2

InitReads ==
    /\ InitStorage
    /\ backend = "mem"
    /\ opsLeft = MaxReadOps

NextReads ==
    \/ Tick
    \/ \E p \in CreatePayloads : InsertValid(p) /\ MemCreateBlogPost(p) /\ UNCHANGED res
    \/ \E id \in CallIds : \E u \in UpdatePartials : UpdateValid(u) /\ MemUpdateBlogPost(id, u) /\ UNCHANGED res
    \/ \E id \in CallIds : MemDeleteBlogPost(id) /\ UNCHANGED res
    \/ \E call \in ReadCalls : MemRead(call)
    \/ \E q \in ReadQueries : ListBlogPosts(q)
    \/ \E idParam \in IdParams : ShowBlogPost(idParam)
    \/ StatsOfBlogPosts

SpecReads == InitReads /\ [][NextReads]_vars

---------------------------------------------------------------------------
(* MySQLStorage.getBlogPostStats among the statements of other requests *)

\* Requests the exploration makes
MaxStatsOps == 2

\* What the requests create while the counts are taken
StatsPayloads ==
    { [title |-> Str("Blank"), content |-> Str("body"), status |-> Str("published")],
      [title |-> Str("Notes"), content |-> Str("text")] }

\* GET /api/blog-posts/stats over MySQLStorage: await storage.getBlogPostStats()
HttpGetBlogPostStats ==
    /\ backend = "sql"
    /\ Arrive(HandlerCall("GET", "stats", EmptyObject,
                          Call("getBlogPostStats", 0, EmptyObject)))

InitStats ==
    /\ InitStorage
    /\ backend = "sql"
    /\ opsLeft = MaxStatsOps

NextStats ==
    \/ Tick
    \/ \E r \in DOMAIN seedPc : SeedCheck(r)
    \/ \E r \in DOMAIN seedPc : SeedInsert(r)
    \/ \E r \in DOMAIN seedPc : SeedSelect(r)
    \/ \E r \in DOMAIN seedPc : SeedFails(r)
    \/ \E p \in StatsPayloads : InsertValid(p) /\ Arrive(Call("createBlogPost", 0, p))
    \/ HttpGetBlogPostStats
    \/ \E c \in DOMAIN calls : CallSqlInsert(c)
    \/ \E c \in DOMAIN calls : CallSqlSelect(c)
    \/ \E c \in DOMAIN calls : CallSqlCount(c)
    \/ \E c \in DOMAIN calls : CallSqlRejected(c)

SpecStats == InitStats /\ [][NextStats]_vars

---------------------------------------------------------------------------
(* Several requests at once: their calls in flight together *)

\* The calls the requests make: two creates, two updates of post 1 over disjoint
\* fields, an update and a delete of the post a create makes, a delete of post 1
ConcurrentCalls ==
    { Call("createBlogPost", 0, [title |-> Str("Notes"), content |-> Str("text"),
                                  category |-> Str("Travel")]),
      Call("createBlogPost", 0, [title |-> Str("Blank"), content |-> Str("body"),
                                  status |-> Str("published")]),
      Call("updateBlogPost", 1, [title |-> Str("Retitled")]),
      Call("updateBlogPost", 1, [category |-> Str("Food"), status |-> Str("draft")]),
      Call("updateBlogPost", 4, [title |-> Str("Retitled")]),
      Call("deleteBlogPost", 4, EmptyObject),
      Call("deleteBlogPost", 1, EmptyObject) }

InitCalls ==
    /\ InitStorage
    /\ opsLeft = MaxCalls

NextCalls ==
    \/ \E r \in DOMAIN seedPc : SeedCheck(r)
    \/ \E r \in DOMAIN seedPc : SeedInsert(r)
    \/ \E r \in DOMAIN seedPc : SeedSelect(r)
    \/ \E r \in DOMAIN seedPc : SeedFails(r)
    \/ \E call \in ConcurrentCalls : Arrive(call)
    \/ \E c \in DOMAIN calls : CallMemCreate(c)
    \/ \E c \in DOMAIN calls : CallMemUpdate(c)
    \/ \E c \in DOMAIN calls : CallMemDelete(c)
    \/ \E c \in DOMAIN calls : CallSqlInsert(c)
    \/ \E c \in DOMAIN calls : CallSqlUpdate(c)
    \/ \E c \in DOMAIN calls : CallSqlSelect(c)
    \/ \E c \in DOMAIN calls : CallSqlDelete(c)
    \/ \E c \in DOMAIN calls : CallSqlRejected(c)

SpecCalls == InitCalls /\ [][NextCalls]_vars

---------------------------------------------------------------------------
(* Properties *)

StoredPosts == [id \in StoredIds |-> StoredPost(id)]

\* A call in flight ended in this step: it returned or it threw
CallEnded ==
    \E c \in DOMAIN calls :
        calls[c].at \notin {"returned", "threw"} /\ calls'[c].at \in {"returned", "threw"}

\* A call, or a request, was made and ended within this step, or one that was in
\* flight ended in it
Ended == (calls' = calls /\ opsLeft' = opsLeft - 1) \/ CallEnded

\* The step ended a storage call named op, whose outcome is in ret'
Called(op) == ret'.op = op /\ Ended

TextKeys ==
    {"title", "content", "excerpt", "category", "featuredImage", "metaDescription", "tags"}
PostKeys == SchemaKeys \cup {"id", "createdAt", "updatedAt"}

\* C1: in-memory backend: after createBlogPost(p) of a payload p the validator accepts,
\* getBlogPost of the returned id gives a record whose title, content, excerpt,
\* category, featuredImage, metaDescription and tags are those of p (null where p has
\* none), whose status is p's or "draft", and whose createdAt and updatedAt are the
\* generated, equal values.
C1_CreateThenGetRoundTrip ==
    (backend = "mem" /\ ret.op = "createBlogPost") =>
        LET p == ret.arg
            r == ret.val
            g == MemGetBlogPost(blogPosts, r.id)
        IN  /\ g # Undefined
            /\ \A k \in TextKeys : g[k] = IF k \in DOMAIN p THEN p[k] ELSE Null
            /\ g.status = IF "status" \in DOMAIN p THEN p.status ELSE Str("draft")
            /\ g.id = r.id
            /\ g.createdAt = r.createdAt
            /\ g.updatedAt = r.updatedAt
            /\ g.createdAt = g.updatedAt

\* C2: in-memory backend: updateBlogPost(e.id, p) of an existing post e stores and
\* returns a record in which every field of p has p's value (an explicit null too; a
\* publishDate string as the timestamp it names), every other field keeps e's value,
\* id and createdAt are e's, updatedAt is the time of the call; no other post changes.
C2_UpdateMergesPartial ==
    [][ (backend = "mem" /\ Called("updateBlogPost") /\ MapHas(blogPosts, ret'.id)) =>
          LET e == MapGet(blogPosts, ret'.id)
              p == ret'.arg
              r == MapGet(blogPosts', ret'.id)
          IN  /\ ret'.val = r
              /\ \A k \in DOMAIN p :
                    r[k] = IF k = "publishDate" /\ p[k].kind = "string"
                           THEN DateOf(p[k].v)
                           ELSE p[k]
              /\ \A k \in (PostKeys \ DOMAIN p) \ {"updatedAt"} : r[k] = e[k]
              /\ r.id = e.id
              /\ r.createdAt = e.createdAt
              /\ r.updatedAt = now
              /\ MapKeys(blogPosts') = MapKeys(blogPosts)
              /\ \A id \in MapKeys(blogPosts) \ {ret'.id} :
                    MapGet(blogPosts', id) = MapGet(blogPosts, id)
      ]_vars

\* C3: updateBlogPost(id, {}) of an existing post succeeds and returns the post, with
\* every field but updatedAt as it was.
C3_EmptyUpdateKeepsFields ==
    [][ (Called("updateBlogPost") /\ DOMAIN ret'.arg = {} /\ ret'.id \in StoredIds) =>
          /\ "val" \in DOMAIN ret'
          /\ ret'.id \in StoredIds'
          /\ ret'.val = StoredPosts'[ret'.id]
          /\ \A k \in PostKeys \ {"updatedAt"} :
                StoredPosts'[ret'.id][k] = StoredPosts[ret'.id][k]
      ]_vars

\* C4: deleteBlogPost(id) of an existing post returns true, the same call made again
\* as the next call returns false, and deleteBlogPost of an id never issued returns false.
C4_DeleteTwice ==
    [][ Called("deleteBlogPost") =>
          /\ ret'.id \in StoredIds => ret'.val = TRUE
          /\ (ret.op = "deleteBlogPost" /\ ret.val = TRUE /\ ret.id = ret'.id) =>
                ret'.val = FALSE
          /\ ret'.id \notin IssuedIds => ret'.val = FALSE
      ]_vars
\* Two calls were made, the second a deleteBlogPost that answered false for the one
\* sample post the first call removed
C4_Witness ==
    /\ backend = "mem"
    /\ opsLeft = MaxOps - 2
    /\ ret.op = "deleteBlogPost"
    /\ ret.val = FALSE
    /\ ret.id \in IssuedIds
    /\ currentBlogPostId = 4
    /\ Cardinality(StoredIds) = 2

\* C5: in-memory backend: every stored post has createdAt <= updatedAt.
C5_CreatedBeforeUpdated ==
    backend = "mem" =>
        \A i \in 1..Len(blogPosts) : blogPosts[i].v.createdAt <= blogPosts[i].v.updatedAt
\* A post was updated at a later clock reading than it was created at
C5_Witness ==
    /\ backend = "mem"
    /\ ret.op = "updateBlogPost"
    /\ \E i \in 1..Len(blogPosts) :
          /\ blogPosts[i].k = ret.id
          /\ blogPosts[i].v.createdAt < blogPosts[i].v.updatedAt

\* C6: getAllBlogPosts() returns every stored post exactly once, each element's
\* createdAt greater than or equal to that of the element after it.
C6_GetAllNewestFirst ==
    \A posts \in GetAllResults :
        /\ Len(posts) = Cardinality(StoredIds)
        /\ \A id \in StoredIds : \E i \in 1..Len(posts) : posts[i] = StoredPost(id)
        /\ \A i \in 1..(Len(posts) - 1) : posts[i].createdAt >= posts[i + 1].createdAt
\* After a create, an update and a delete, a post created later than the samples is
\* returned before them
C6_Witness ==
    /\ backend = "mem"
    /\ opsLeft = 0
    /\ ret.op = "deleteBlogPost" /\ ret.val = TRUE
    /\ \E posts \in GetAllResults :
          /\ Len(posts) >= 3
          /\ posts[1].id > posts[2].id
          /\ posts[1].createdAt > posts[2].createdAt
          /\ posts[2].createdAt = posts[3].createdAt
          /\ posts[2].updatedAt > posts[2].createdAt

\* C7: getBlogPostStats().totalPosts is the number of elements getAllBlogPosts() returns.
C7_TotalIsLengthOfAll ==
    LET total == TotalPosts
    IN  \A posts \in GetAllResults : total = Len(posts)
\* The store holds a scheduled post beside the samples, one of them deleted
C7_Witness ==
    /\ backend = "mem"
    /\ TotalPosts = 3
    /\ \E i \in 1..Len(blogPosts) : blogPosts[i].v.status = Str("scheduled")
    /\ \E id \in IssuedIds : id \notin StoredIds

\* C8: in-memory backend: getBlogPostStats() counts as published the stored posts of
\* status "published", as draft those of status "draft", as monthly those created in
\* the calendar month of the call; of the freshly seeded store it says 3 posts,
\* 2 published, 1 draft.
C8_MemStats ==
    backend = "mem" =>
        LET stats == MemGetBlogPostStats(blogPosts, now)
            WithStatus(st) ==
                {i \in 1..Len(blogPosts) : blogPosts[i].v.status = Str(st)}
            ThisMonth ==
                {i \in 1..Len(blogPosts) :
                    blogPosts[i].v.createdAt \div TicksPerMonth = now \div TicksPerMonth}
        IN  /\ stats.publishedPosts = Cardinality(WithStatus("published"))
            /\ stats.draftPosts = Cardinality(WithStatus("draft"))
            /\ stats.monthlyPosts = Cardinality(ThisMonth)
            /\ ret.op = "none" =>
                  /\ stats.totalPosts = 3
                  /\ stats.publishedPosts = 2
                  /\ stats.draftPosts = 1
\* One year after boot, in the month of boot, the store holds the samples and one post
\* created this month
C8_Witness ==
    /\ backend = "mem"
    /\ GetFullYear(now) = 1
    /\ ret.op = "createBlogPost"
    /\ MemGetBlogPostStats(blogPosts, now).totalPosts = 4
    /\ MemGetBlogPostStats(blogPosts, now).monthlyPosts = 1

\* C9: relational backend: getBlogPostStats().monthlyPosts is the number of rows created
\* in the calendar month of the call, whatever their status.
C9_SqlMonthlyIsThisMonth ==
    [][ \A c \in DOMAIN calls :
            (CallAt(c, "sql", "getBlogPostStats", "counted") /\ calls'[c].at = "returned") =>
                calls'[c].val.monthlyPosts =
                    Cardinality({id \in DOMAIN sqlRows :
                                   sqlRows[id].createdAt \div TicksPerMonth
                                       = now \div TicksPerMonth}) ]_vars

\* The results searchBlogPosts(query) of the storage in use may give
SearchBlogPostsResults(query) ==
    IF backend = "mem"
    THEN {MemSearchBlogPosts(blogPosts, query)}
    ELSE SqlSearchBlogPosts(sqlRows, query)

\* Queries that occur in a tag of a sample post and in none of its other fields
TagQueries == {"Switzerland", "greece"}
\* The query occurs in a tag of the post and in none of title, content, excerpt, category
TagOnlyMatch(post, query) ==
    LET q == ToLowerCase(query)
        In(v) == v.kind = "string" /\ Includes(ToLowerCase(v.v), q)
    IN  /\ post.tags.kind = "array"
        /\ \E i \in 1..Len(post.tags.v) : In(post.tags.v[i])
        /\ ~In(post.title) /\ ~In(post.content) /\ ~In(post.excerpt) /\ ~In(post.category)
IsElement(post, posts) == \E i \in 1..Len(posts) : posts[i] = post

\* C11: a stored post one of whose tags contains the query, letter case ignored, while
\* its title, content, excerpt and category do not, is in what the search filter of
\* GET /api/blog-posts keeps and in what searchBlogPosts of the storage in use returns.
C11_TagSearchMatches ==
    \A query \in TagQueries : \A id \in StoredIds :
        TagOnlyMatch(StoredPost(id), query) =>
            /\ \A posts \in GetAllResults :
                  IsElement(StoredPost(id), RouteSearchFilter(posts, Str(query)))
            /\ \A found \in SearchBlogPostsResults(query) : IsElement(StoredPost(id), found)

\* C13: no two stored users have the same username: a createUser of a username that a
\* stored user has does not add a user.
C13_UsernamesUnique ==
    \A i, j \in 1..Len(users) : users[i].v.username = users[j].v.username => i = j

\* The step answered a request of the given method: the exchange is in res'
Requested(method) == res'.method = method /\ Ended

\* C14: every stored post's status is one of "draft", "published", "scheduled".
C14_StatusEnumerated ==
    \A id \in StoredIds :
        StoredPost(id).status \in {Str("draft"), Str("published"), Str("scheduled")}

NonEmptyText(v) == v.kind = "string" /\ Len(v.v) >= 1
\* The bodies of the PATCH requests to post id whose update is written in this step:
\* by the handler's call of the in-memory storage, by the UPDATE statement of the
\* relational one
PatchesWritten(id) ==
    IF backend = "mem"
    THEN IF Requested("PATCH") /\ ParseInt(res'.id) = Num(id) THEN {res'.body} ELSE {}
    ELSE {calls[c].req.body :
            c \in {d \in DOMAIN calls : /\ calls[d].req.method = "PATCH"
                                        /\ calls[d].id = id
                                        /\ calls[d].at = "called"
                                        /\ calls'[d].at = "updated"}}

\* C15: every stored post has a non-empty title and a non-empty content; a PATCH that
\* carries an empty title or an empty content is answered 400 and changes no post, and
\* a PATCH that carries no title (no content) leaves every title (content) as it was:
\* the title (content) of a stored post changes only in the step that writes a PATCH
\* to that post which carries a title (content).
C15_TitleAndContentStay ==
    /\ [](\A id \in StoredIds :
             NonEmptyText(StoredPost(id).title) /\ NonEmptyText(StoredPost(id).content))
    /\ [][ Requested("PATCH") =>
             /\ (\E k \in {"title", "content"} : Field(res'.body, k) = Str("")) =>
                    res'.status = 400 /\ StoredPosts' = StoredPosts
             /\ \A k \in {"title", "content"} :
                    k \notin DOMAIN res'.body =>
                        \A id \in StoredIds \cap StoredIds' :
                            StoredPosts'[id][k] = StoredPosts[id][k]
         ]_vars
    /\ [][ \A k \in {"title", "content"} : \A id \in StoredIds \cap StoredIds' :
              StoredPosts'[id][k] # StoredPosts[id][k] =>
                  \E body \in PatchesWritten(id) : k \in DOMAIN body
         ]_vars
\* PATCH of the stored post 1 with an empty title was answered 400
C15_Witness ==
    /\ res.method = "PATCH"
    /\ res.id = "1"
    /\ 1 \in StoredIds
    /\ Field(res.body, "title") = Str("")
    /\ res.status = 400

\* The body of the request fails the schema of its endpoint
BodyFails(exchange) ==
    \/ exchange.method = "POST" /\ ~InsertValid(exchange.body)
    \/ exchange.method = "PATCH" /\ ~UpdateValid(exchange.body)
\* The response is 400 with a non-empty list of failures, and neither the posts, nor
\* the id counter, nor the last storage call have changed
RejectedUntouched ==
    /\ res'.status = 400
    /\ "errors" \in DOMAIN res'.json
    /\ res'.json.errors # {}
    /\ UNCHANGED <<blogPosts, currentBlogPostId, sqlRows, sqlAutoInc, ret>>

\* C16 as stated: a POST or PATCH whose body fails schema validation is answered 400
\* with the list of validation failures, and the storage is not invoked.
C16_InvalidBodyIs400 ==
    [][ ((Requested("POST") \/ Requested("PATCH")) /\ BodyFails(res')) =>
            RejectedUntouched ]_vars
\* C16, amended: a POST, or a PATCH whose :id parses to a number, whose body fails
\* schema validation is answered 400 with the list of validation failures, and the
\* storage is not invoked.
C16_InvalidBodyIs400NumericId ==
    [][ ( /\ Requested("POST") \/ (Requested("PATCH") /\ ParseInt(res'.id) # NaN)
          /\ BodyFails(res') ) =>
            RejectedUntouched ]_vars
\* PATCH /api/blog-posts/1 with an empty title was answered 400 with the failure of
\* title, after a POST that stored a post
C16_Witness ==
    /\ res.method = "PATCH"
    /\ res.id = "1"
    /\ res.status = 400
    /\ "errors" \in DOMAIN res.json
    /\ res.json.errors = {"title"}
    /\ ret.op = "createBlogPost"

\* C17: GET, PATCH with a body the schema accepts, and DELETE of /api/blog-posts/:id
\* with a numeric id answer 200 when a post of that id is stored and 404 when none is,
\* the storage's connection being up.
C17_AbsenceIs404 ==
    [][ ( /\ Requested("GET") \/ Requested("PATCH") \/ Requested("DELETE")
          /\ res'.id # ""
          /\ ParseInt(res'.id) # NaN
          /\ res'.method = "PATCH" => UpdateValid(res'.body)
          /\ ~("threw" \in DOMAIN ret' /\ ret'.threw = DbError) ) =>
            res'.status = IF ParseInt(res'.id).v \in StoredIds THEN 200 ELSE 404 ]_vars

\* C18: a storage call on an id with no record answers an absent result and changes
\* nothing: getBlogPost and updateBlogPost answer undefined, deleteBlogPost answers
\* false, no record is created and the id counter stays.
C18_AbsentIsNoError ==
    /\ [](\A id \in CallIds \ StoredIds :
             (IF backend = "mem" THEN MemGetBlogPost(blogPosts, id)
                                 ELSE SqlGetBlogPost(sqlRows, id)) = Undefined)
    /\ [][ ( /\ Called("updateBlogPost") \/ Called("deleteBlogPost")
             /\ ret'.id \notin StoredIds ) =>
               /\ "val" \in DOMAIN ret'
               /\ ret'.val = IF ret'.op = "updateBlogPost" THEN Undefined ELSE FALSE
               /\ UNCHANGED <<blogPosts, currentBlogPostId, sqlRows, sqlAutoInc>>
         ]_vars

\* The request passes the id check and the schema, so the handler calls the storage
ReachesStorage(exchange) ==
    /\ (exchange.method # "POST" /\ exchange.id # "") => ParseInt(exchange.id) # NaN
    /\ exchange.method = "POST" => InsertValid(exchange.body)
    /\ exchange.method = "PATCH" => UpdateValid(exchange.body)
\* The message each endpoint gives for a failure of the storage
FaultMessage(exchange) ==
    CASE exchange.method = "GET" /\ exchange.id = "" -> "Failed to fetch blog posts"
      [] exchange.method = "GET" /\ exchange.id # "" -> "Failed to fetch blog post"
      [] exchange.method = "POST" -> "Failed to create blog post"
      [] exchange.method = "PATCH" -> "Failed to update blog post"
      [] exchange.method = "DELETE" -> "Failed to delete blog post"

\* C19: when the storage call of a request throws, the response is 500 and its body is
\* the endpoint's fixed message alone, which holds none of the error's text.
C19_StorageFaultIs500 ==
    [][ ( /\ \E method \in {"GET", "POST", "PATCH", "DELETE"} : Requested(method)
          /\ ReachesStorage(res')
          /\ "threw" \in DOMAIN ret' ) =>
            /\ res'.status = 500
            /\ res'.json = [message |-> FaultMessage(res')]
            /\ ~Includes(res'.json.message, ret'.threw)
            /\ ~Includes(ToLowerCase(res'.json.message), ToLowerCase(ret'.threw)) ]_vars
\* A POST was answered 500: the database took the insert of its createBlogPost and
\* rejected the read after it, and the row is in the table
C19_Witness ==
    /\ res.method = "POST"
    /\ res.status = 500
    /\ ret.op = "createBlogPost"
    /\ "threw" \in DOMAIN ret
    /\ ret.threw = DbError
    /\ ret.id \in StoredIds
    /\ StoredPost(ret.id).title = res.body.title

\* The blog_posts table that holds the posts of the in-memory Map
RowsOf(posts) == [id \in MapKeys(posts) |-> MapGet(posts, id)]
\* Arguments of the query operations: a word found in a tag only, a word of a title
\* in other letter case, a status and a category as stored and in other letter case
SearchStrings == {"Switzerland", "TOKYO"}
StatusStrings == {"published", "PUBLISHED"}
CategoryStrings == {"Travel", "travel"}

\* C20: of the same posts, searchBlogPosts(q), getBlogPostsByStatus(s) and
\* getBlogPostsByCategory(c) of the relational backend return what those of the
\* in-memory backend return, in the same order.
C20_QueriesAgree ==
    backend = "mem" =>
        LET rows == RowsOf(blogPosts)
        IN  /\ \A q \in SearchStrings :
                  SqlSearchBlogPosts(rows, q) = {MemSearchBlogPosts(blogPosts, q)}
            /\ \A st \in StatusStrings :
                  SqlGetBlogPostsByStatus(rows, st) = {MemGetBlogPostsByStatus(blogPosts, st)}
            /\ \A c \in CategoryStrings :
                  SqlGetBlogPostsByCategory(rows, c) =
                      {MemGetBlogPostsByCategory(blogPosts, c)}

\* The query has no search, and status and category are each absent or "all"
NoConstraint(query) ==
    /\ "search" \notin DOMAIN query
    /\ \A k \in {"status", "category"} : k \in DOMAIN query => query[k] = Str("all")

\* C12: GET /api/blog-posts with no search parameter and with status and category each
\* absent or "all" answers exactly the sequence getAllBlogPosts() returns.
C12_AllIsNoConstraint ==
    (ret.op = "listBlogPosts" /\ NoConstraint(ret.query)) => ret.body \in GetAllResults
\* status=all&category=all has answered all four stored posts, one of them of category
\* null
C12_Witness ==
    /\ ret.op = "listBlogPosts"
    /\ ret.query = [status |-> Str("all"), category |-> Str("all")]
    /\ Len(ret.body) = 4
    /\ \E i \in 1..Len(ret.body) : ret.body[i].category = Null

\* A query parameter that is given and is not "all"
Constrains(v) == v.kind = "string" /\ v.v \notin {"", "all"}
\* The post satisfies every filter the query supplies
SatisfiesAll(post, query) ==
    /\ Truthy(Field(query, "search")) => SearchMatches(post, ToLowerCase(query.search.v))
    /\ Constrains(Field(query, "status")) => post.status = query.status
    /\ Constrains(Field(query, "category")) => post.category = query.category

\* C10: GET /api/blog-posts answers exactly the posts of getAllBlogPosts(), in its
\* order, that satisfy every one of the search, status and category filters supplied.
C10_ListIsConjunction ==
    ret.op = "listBlogPosts" =>
        \E posts \in GetAllResults :
            ret.body = SelectSeq(posts, LAMBDA post : SatisfiesAll(post, ret.query))
\* With A published/Travel, B draft/Travel and C published/Food in the store,
\* status=published&category=Travel has answered exactly A
C10_Witness ==
    /\ ret.op = "listBlogPosts"
    /\ ret.query = [status |-> Str("published"), category |-> Str("Travel")]
    /\ Len(ret.body) = 1
    /\ \E b, c \in StoredIds :
          /\ StoredPost(b).status = Str("draft") /\ StoredPost(b).category = Str("Travel")
          /\ StoredPost(c).status = Str("published") /\ StoredPost(c).category = Str("Food")
          /\ ret.body[1].id \notin {b, c}

---------------------------------------------------------------------------
(* PATCH /api/blog-posts/:id: the order of its steps *)

\* The :id parameter is written with decimal digits only
AllDigits(s) == s # "" /\ \A i \in 1..Len(s) : IsDigit(SubSeq(s, i, i))

\* The storage was not touched: the posts, the id counters and the last storage call
\* are what they were
StorageUntouched == UNCHANGED <<blogPosts, currentBlogPostId, sqlRows, sqlAutoInc, ret>>

\* The request was answered 400 "Invalid post ID", with no list of validation failures
AnsweredInvalidPostId ==
    /\ res'.status = 400
    /\ res'.json = [message |-> "Invalid post ID"]

\* C25 as stated: PATCH parses the id, validates the body, then updates the storage. A
\* PATCH whose id is not numeric is answered 400 without validating the body or
\* touching the storage; a PATCH with an invalid body to a numeric id with no post is
\* answered 400, not 404.
C25_PatchOrder ==
    [][ Requested("PATCH") =>
            /\ ~AllDigits(res'.id) => (AnsweredInvalidPostId /\ StorageUntouched)
            /\ (AllDigits(res'.id) /\ ~UpdateValid(res'.body)) =>
                   (res'.status = 400 /\ StorageUntouched) ]_vars

---------------------------------------------------------------------------
(* deleteBlogPost: what it removes and what it leaves *)

\* storage.getBlogPost(id), on either backend
GetBlogPostResult(id) ==
    IF backend = "mem" THEN MemGetBlogPost(blogPosts, id) ELSE SqlGetBlogPost(sqlRows, id)

\* The answers of getBlogPost for every id that may have been issued
GetBlogPostResults == [id \in CallIds |-> GetBlogPostResult(id)]

\* C26: deleteBlogPost(id) on an existing id removes exactly that record: afterwards
\* getBlogPost(id) is absent, every other post is field for field what it was,
\* getBlogPostStats().totalPosts is smaller by exactly 1, and the next-id counter is
\* unchanged.
C26_DeleteRemovesOnlyThat ==
    [][ (Called("deleteBlogPost") /\ ret'.id \in StoredIds) =>
            /\ ret'.val = TRUE
            /\ GetBlogPostResults'[ret'.id] = Undefined
            /\ StoredIds' = StoredIds \ {ret'.id}
            /\ \A other \in StoredIds \ {ret'.id} :
                   /\ GetBlogPostResults'[other] = GetBlogPostResults[other]
                   /\ GetBlogPostResults'[other] # Undefined
            /\ TotalPosts' = TotalPosts - 1
            /\ UNCHANGED <<currentBlogPostId, sqlAutoInc>> ]_vars

\* A stored post was deleted and others are still stored
C26_Witness ==
    /\ ret.op = "deleteBlogPost"
    /\ ret.val = TRUE
    /\ ret.id \notin StoredIds
    /\ Cardinality(StoredIds) >= 2
    /\ TotalPosts = Cardinality(StoredIds)

---------------------------------------------------------------------------
(* MySQLStorage.initializeSampleData over several boots *)

\* The rows of the table that were not there before the step
InsertedIds == DOMAIN sqlRows' \ DOMAIN sqlRows

\* The row is the one an insert of sample i gives
IsSeedRow(row, i) ==
    \A key \in DOMAIN SqlPostData(SamplePosts[i]) \ {"publishDate"} :
        row[key] = SqlPostData(SamplePosts[i])[key]
IsSomeSeedRow(row) == \E i \in 1..Len(SamplePosts) : IsSeedRow(row, i)

\* The seeding run of instance r moved on, or ended, in this step
RunStepped(r) == r \in DOMAIN seedPc' /\ seedPc'[r] # seedPc[r]

\* The run of instance r was cut in this step: it ends, and no row changes
RunCut(r) == seedPc'[r] = [at |-> "failed"] /\ UNCHANGED <<sqlRows, sqlAutoInc>>

\* A step of the run of instance r is the next step of a seeding: the check, which
\* changes no row and ends the run when a row is there; the insert of the next sample,
\* which adds that row and no other; the read after it, which changes no row and goes
\* on to the next sample or, after the third, ends the run.  A run may also end at
\* a check that is given no answer, with nothing inserted, and at the read after the
\* third insert
SeedingStep(r) ==
    /\ (RunStepped(r) /\ seedPc[r].at = "check") =>
           \/ /\ UNCHANGED <<sqlRows, sqlAutoInc>>
              /\ seedPc'[r] = IF DOMAIN sqlRows = {}
                               THEN [at |-> "insert", i |-> 1]
                               ELSE [at |-> "done"]
           \/ RunCut(r)
    /\ (RunStepped(r) /\ seedPc[r].at = "insert") =>
           /\ InsertedIds = {sqlAutoInc}
           /\ IsSeedRow(sqlRows'[sqlAutoInc], seedPc[r].i)
           /\ \A id \in DOMAIN sqlRows :
                  id \in DOMAIN sqlRows' /\ sqlRows'[id] = sqlRows[id]
           /\ seedPc'[r] = [at |-> "select", i |-> seedPc[r].i]
    /\ (RunStepped(r) /\ seedPc[r].at = "select") =>
           \/ /\ UNCHANGED <<sqlRows, sqlAutoInc>>
              /\ seedPc'[r] = IF seedPc[r].i = Len(SamplePosts)
                               THEN [at |-> "done"]
                               ELSE [at |-> "insert", i |-> seedPc[r].i + 1]
           \/ seedPc[r].i = Len(SamplePosts) /\ RunCut(r)
    /\ (RunStepped(r) /\ seedPc[r].at \in {"done", "failed"}) =>
           (seedPc'[r] = [at |-> "check"] /\ ret'.op = "boot" /\ UNCHANGED <<sqlRows, sqlAutoInc>>)
    /\ (seedPc'[r].at = "insert" /\ seedPc[r].at \notin {"insert", "select"}) =>
           (seedPc[r].at = "check" /\ DOMAIN sqlRows = {})

\* A row with the content of a sample is added only by the insert step of a run
SeedRowsAreSeeded ==
    (\E id \in InsertedIds : IsSomeSeedRow(sqlRows'[id])) =>
        \E r \in DOMAIN seedPc : RunStepped(r) /\ seedPc[r].at = "insert"

\* C21 as stated: a boot whose emptiness check finds a post row inserts nothing; a boot
\* that finds the table empty inserts exactly the three seed posts, one after the
\* other; a seed post is inserted only by the seeding run of a boot that found the
\* table empty, whatever creates, deletes and other boots come in between.
C21_SeedsOnlyIntoEmptyTable ==
    [][ /\ \A r \in DOMAIN seedPc : SeedingStep(r)
        /\ SeedRowsAreSeeded ]_vars

\* The seed posts in the table, each counted as often as it is there
SeedRowIds(i) == {id \in DOMAIN sqlRows : IsSeedRow(sqlRows[id], i)}

\* C28: under every interleaving of the seeding run with createBlogPost requests and
\* with the seeding run of a second instance, each seed insert executes only while
\* the table holds no rows other than seed rows of that same run: the rows there are
\* when sample i is inserted are among the rows of the samples before i; and the
\* table holds each seed post at most once.
C28_SeedInsertsIntoOwnRowsOnly ==
    /\ [][ \A r \in DOMAIN seedPc :
               (RunStepped(r) /\ seedPc[r].at = "insert" /\ seedPc'[r].at = "select") =>
                   \A id \in DOMAIN sqlRows :
                       \E j \in 1..(seedPc[r].i - 1) : IsSeedRow(sqlRows[id], j) ]_vars
    /\ [](backend = "sql" =>
             \A i \in 1..Len(SamplePosts) : Cardinality(SeedRowIds(i)) <= 1)

---------------------------------------------------------------------------
(* MemStorage over restarts; the ids it issues *)

\* What the first boot of the process may have stored
FirstBoot == {MemSeeded(<<>>, 1, SamplePosts, times) : times \in BootReadings(0)}

\* C22: after any calls of create, update and delete, a restart of the process leaves
\* exactly the three seed posts, ids 1, 2, 3, in the Map in that order, with the field
\* values the first boot gave them (createdAt and updatedAt of each are one reading of
\* the clock during the boot, no earlier than that of the seed before), no users, and
\* 4 as the next post id: nothing created, changed or deleted before is there.
C22_RestartReseeds ==
    [][ Called("restart") =>
            /\ Len(blogPosts') = 3
            /\ MapKeys(blogPosts') = {1, 2, 3}
            /\ \A id \in {1, 2, 3} :
                   LET post == MapGet(blogPosts', id)
                   IN  /\ post.id = id
                       /\ blogPosts'[id].k = id
                       /\ \A boot \in FirstBoot :
                              \A key \in PostKeys \ {"createdAt", "updatedAt"} :
                                  post[key] = MapGet(boot.posts, id)[key]
                       /\ \A key \in TextKeys : post[key] = SamplePosts[id][key]
                       /\ post.createdAt = post.updatedAt
                       /\ now <= post.createdAt /\ post.createdAt <= now'
                       /\ id > 1 => MapGet(blogPosts', id - 1).createdAt <= post.createdAt
            /\ users' = <<>>
            /\ currentUserId' = 1
            /\ currentBlogPostId' = 4 ]_vars

\* The process was restarted at a later time than its first boot, after two calls, and
\* the clock moved on between the creates of the first and the last seed post
C22_Witness ==
    /\ ret.op = "restart"
    /\ opsLeft = MaxMemOps - 3
    /\ MapGet(blogPosts, 1).createdAt > 0
    /\ MapGet(blogPosts, 1).createdAt < MapGet(blogPosts, 3).createdAt
    /\ MapGet(blogPosts, 3).createdAt = now
    /\ currentBlogPostId = 4

\* Every record is stored under its own id, below the counter
IdsBelowCounter(map, counter) ==
    /\ counter >= 1
    /\ Cardinality(MapKeys(map)) = Len(map)
    /\ \A i \in 1..Len(map) :
           /\ map[i].k = map[i].v.id
           /\ map[i].k >= 1
           /\ map[i].k < counter

\* C23: in the in-memory backend post ids, and user ids, are issued from a counter
\* that starts at 1 and goes up by one with every create: the id a create issues is
\* the counter's value, which no earlier create of the process lifetime was given,
\* deleted or not; the counter is above every id in the store; and each record is
\* stored under the key that is its id field.
C23_IdsIssuedOnce ==
    /\ [](IdsBelowCounter(blogPosts, currentBlogPostId) /\ IdsBelowCounter(users, currentUserId))
    /\ [][ /\ Called("createBlogPost") =>
                  /\ ret'.val.id = currentBlogPostId
                  /\ currentBlogPostId' = currentBlogPostId + 1
                  /\ MapGet(blogPosts', ret'.val.id) = ret'.val
                  /\ ~MapHas(blogPosts, ret'.val.id)
           /\ Called("createUser") =>
                  /\ ret'.val.id = currentUserId
                  /\ currentUserId' = currentUserId + 1
                  /\ MapGet(users', ret'.val.id) = ret'.val
                  /\ ~MapHas(users, ret'.val.id)
           /\ ~Called("restart") =>
                  /\ currentBlogPostId' >= currentBlogPostId
                  /\ currentUserId' >= currentUserId
           /\ currentBlogPostId' # currentBlogPostId =>
                  (Called("createBlogPost") \/ Called("restart"))
           /\ currentUserId' # currentUserId =>
                  (Called("createUser") \/ Called("restart")) ]_vars

\* Post 4 was created and deleted, and the next create was given id 5
C23_Witness ==
    /\ ret.op = "createBlogPost"
    /\ ret.val.id = 5
    /\ MapKeys(blogPosts) = {1, 2, 3, 5}
    /\ currentBlogPostId = 6

---------------------------------------------------------------------------
(* The reads of the in-memory store *)

ReadOps ==
    {call.op : call \in ReadCalls} \cup {"listBlogPosts", "showBlogPost", "statsOfBlogPosts"}

\* C27: getAllBlogPosts, getBlogPost, searchBlogPosts, getBlogPostsByStatus,
\* getBlogPostsByCategory, getBlogPostStats and the GET endpoints leave the in-memory
\* store as it was: the posts, their fields, the iteration order of the Map and the
\* id counters.
C27_ReadsLeaveStore ==
    [][ (ret'.op \in ReadOps /\ opsLeft' = opsLeft) =>
            UNCHANGED <<blogPosts, currentBlogPostId, users, currentUserId>> ]_vars

\* getAllBlogPosts answered four posts, the newest, post 4, first, and the Map still
\* iterates from post 1 to post 4
C27_Witness ==
    /\ ret.op = "getAllBlogPosts"
    /\ Len(ret.val) = 4
    /\ ret.val[1].id = 4
    /\ ret.val[1].createdAt > ret.val[2].createdAt
    /\ [i \in 1..4 |-> blogPosts[i].k] = <<1, 2, 3, 4>>

---------------------------------------------------------------------------
(* Requests handled at once *)

\* The calls that have returned
ReturnedCalls(op) == {c \in DOMAIN calls : calls[c].op = op /\ calls[c].at = "returned"}

\* Every call in flight is a createBlogPost
OnlyCreates == \A c \in DOMAIN calls : calls[c].op = "createBlogPost"

\* C24: in the in-memory backend createBlogPost allocates the id and inserts the post
\* in one step: a create that starts has returned when anything else runs, with the
\* counter's value as its id, the counter one higher and the post in the Map; so the
\* creates in flight together are given distinct ids, and when only creates are in
\* flight every one that has returned has its post in the store.
C24_CreateIsOneStep ==
    /\ [](backend = "mem" =>
             /\ \A c, d \in ReturnedCalls("createBlogPost") :
                    c # d => calls[c].id # calls[d].id
             /\ OnlyCreates =>
                    /\ \A c \in ReturnedCalls("createBlogPost") :
                           MapGet(blogPosts, calls[c].id) = calls[c].val
                    /\ Len(blogPosts) = Len(SamplePosts)
                                            + Cardinality(ReturnedCalls("createBlogPost")))
    /\ [][ backend = "mem" =>
               \A c \in DOMAIN calls :
                   (calls[c].op = "createBlogPost" /\ calls[c].at = "called"
                        /\ calls'[c] # calls[c]) =>
                       /\ calls'[c].at = "returned"
                       /\ calls'[c].id = currentBlogPostId
                       /\ currentBlogPostId' = currentBlogPostId + 1
                       /\ MapGet(blogPosts', calls'[c].id) = calls'[c].val ]_vars

\* Three creates were in flight together in the in-memory backend and have returned
\* with the ids 4, 5 and 6; the one that arrived last ran first
C24_Witness ==
    /\ backend = "mem"
    /\ Len(calls) = MaxCalls
    /\ OnlyCreates
    /\ ReturnedCalls("createBlogPost") = DOMAIN calls
    /\ {calls[c].id : c \in DOMAIN calls} = {4, 5, 6}
    /\ calls[MaxCalls].id = 4

\* The update found its post: the in-memory call returned a post, the UPDATE
\* statement of the relational one matched a row
FoundPost(c) ==
    IF backend = "mem" THEN calls[c].val # Undefined ELSE calls[c].affectedRows = 1

\* The calls a and b are two updates of one post over disjoint fields, the post was
\* there for both, and no call deletes it
TwoDisjointUpdates(a, b) ==
    /\ a # b
    /\ calls[a].op = "updateBlogPost" /\ calls[b].op = "updateBlogPost"
    /\ calls[a].id = calls[b].id
    /\ DOMAIN calls[a].arg \cap DOMAIN calls[b].arg = {}
    /\ \A c \in DOMAIN calls : ~(calls[c].op = "deleteBlogPost" /\ calls[c].id = calls[a].id)
    /\ FoundPost(a) /\ FoundPost(b)
    /\ calls[a].id \in StoredIds

\* C29: no lost update.  When two updateBlogPost calls on the same existing post, with
\* partials over disjoint fields, are in flight together and both have returned, the
\* post carries the values of both partials, whatever the order of their steps, on
\* either backend.
C29_NoLostUpdate ==
    \A a, b \in ReturnedCalls("updateBlogPost") :
        TwoDisjointUpdates(a, b) =>
            /\ \A key \in DOMAIN calls[a].arg :
                   StoredPost(calls[a].id)[key] = calls[a].arg[key]
            /\ \A key \in DOMAIN calls[b].arg :
                   StoredPost(calls[b].id)[key] = calls[b].arg[key]

\* In the relational backend two updates of post 1 over disjoint fields have returned,
\* each after the other's UPDATE: each answered the other's values too
C29_Witness ==
    /\ backend = "sql"
    /\ Len(calls) = 2
    /\ TwoDisjointUpdates(1, 2)
    /\ ReturnedCalls("updateBlogPost") = {1, 2}
    /\ calls[1].arg = [title |-> Str("Retitled")]
    /\ calls[1].val.category = Str("Food")
    /\ calls[2].val.title = Str("Retitled")
    /\ sqlRows[1].title = Str("Retitled") /\ sqlRows[1].category = Str("Food")

\* C30: in the relational backend createBlogPost, whatever deleteBlogPost and
\* updateBlogPost calls of other requests run between its insert and its read, returns
\* a record, never undefined, whose fields are the ones it inserted.
C30_CreateReturnsInserted ==
    [][ backend = "sql" =>
            \A c \in DOMAIN calls :
                (calls[c].op = "createBlogPost" /\ calls[c].at = "inserted"
                     /\ calls'[c].at = "returned") =>
                    /\ calls'[c].val # Undefined
                    /\ \A key \in DOMAIN calls[c].arg :
                           calls'[c].val[key] = calls[c].arg[key] ]_vars

====
